---- MODULE Spec2Model ----
(***************************************************************************)
(* Verification model of the AI mock-interview backend.                    *)
(*                                                                         *)
(*   Spec        the LangGraph interview workflow                          *)
(*               (app/services/langgraph_interview_service.py) together    *)
(*               with the projection the start endpoint makes of its       *)
(*               result (app/api/endpoints/ai_interview.py)                *)
(*   FairSpec    Spec with weak fairness on the workflow's steps           *)
(*   AssessSpec  the assessment engine                                     *)
(*               (app/services/assessment_service.py)                      *)
(*   ApiSpec     the session endpoints over the two tables, one request at *)
(*               a time (app/api/endpoints/ai_interview.py)                *)
(*   ConcurrentApiSpec  the same handlers with two requests in flight      *)
(*   RagSpec     the context provider (app/services/rag_service.py)        *)
(*   ReassessSpec  the assessment engine run again on an assessed session  *)
(*   MetricsSpec the communication pass of the assessment on its own       *)
(*   ParseSpec   _parse_json_response on its own                           *)
(*   LimitSpec, RateSpec  the rate limiting middleware                     *)
(*               (app/middleware/rate_limiter.py)                          *)
(*                                                                         *)
(* A text is modelled by the sequence of the lengths of its whitespace     *)
(* separated words (len() and split() are computed from it); a message is  *)
(* a record of its class ("human" / "ai"), a label naming its content and  *)
(* the words of the content.                                               *)
(***************************************************************************)
EXTENDS Integers, Sequences, FiniteSets, TLC

\* ------------------------------------------------------------------ bounds
MaxWords == 1        \* words in a user-authored text
MaxWordLen == 2      \* characters in a word of a user-authored text
MaxUserId == 1       \* user ids 1..MaxUserId
MaxConductSteps == 7 \* conduct steps the graph runner lets one run take
MaxScoreIdx == 2     \* the model calls return the scores 55 * k, k in 1..MaxScoreIdx

\* ------------------------------------------------------- program constants
DefaultMaxQuestions == 5

None == "None"

\* ------------------------------------------------------------------- texts
RECURSIVE SumSeq(_)
SumSeq(s) == IF s = <<>> THEN 0 ELSE Head(s) + SumSeq(Tail(s))

\* len(text): the characters of the words plus one separator between words
StrLen(words) == IF words = <<>> THEN 0 ELSE SumSeq(words) + Len(words) - 1

\* len(text.split())
WordCount(words) == Len(words)

TextsOfLen(n) == [1..n -> 1..MaxWordLen]

\* user-authored texts, the empty string included
UserTexts == UNION {TextsOfLen(n) : n \in 0..MaxWords}

HumanMessage(words) == [type |-> "human", content |-> "user_text", words |-> words]

\* the reply of a successful model call
LlmReply == [type |-> "ai", content |-> "llm_reply", words |-> <<2, 2>>]

\* AIMessage(content="I apologize, but I encountered an error. Let's continue.")
ApologyMessage ==
    [type |-> "ai", content |-> "apology", words |-> <<1, 10, 3, 1, 11, 2, 6, 5, 9>>]

RECURSIVE SelectType(_, _)
SelectType(msgs, t) ==
    IF msgs = <<>> THEN <<>>
    ELSE IF Head(msgs).type = t
         THEN <<Head(msgs)>> \o SelectType(Tail(msgs), t)
         ELSE SelectType(Tail(msgs), t)

IsPrefix(s, t) == Len(s) <= Len(t) /\ SubSeq(t, 1, Len(s)) = s

\* ------------------------------------------------------------- the workflow
VARIABLES
    pc,             \* node the workflow is about to run; "idle" outside a run
    state,          \* the InterviewState threaded through the nodes
    entry,          \* which service method started the run
    loaded,         \* the state the run was invoked with
    cycles,         \* conduct/analyze/check cycles completed in this run
    n_prepare,      \* prepare_context steps executed in this run
    n_conduct,      \* conduct_interview steps executed in this run
    n_feedback,     \* generate_feedback steps entered in this run
    fb_appended,    \* messages appended by generate_feedback in this run
    llm_last,       \* outcome of the last model call of the run
    seen_count,     \* question count the first conduct step of the run saw
    result,         \* dict the service method returned
    http_response   \* body the start endpoint answered with

wfvars == <<pc, state, entry, loaded, cycles, n_prepare, n_conduct, n_feedback,
            fb_appended, llm_last, seen_count, result, http_response>>

\* the assessment engine's state (its operations are defined further down)
VARIABLES
    apc,                    \* position inside assess_interview_session
    session,                \* the persisted AIInterviewSession row
    interactions,           \* the session's interactions in created_at order
    communication_scores,   \* locals of assess_interview_session
    content_scores,
    behavioral_scores,
    overall_feedback,
    assessment,             \* the bundle assess_interview_session returned
    calls                   \* what each of the model calls of the assessment did

asvars == <<apc, session, interactions, communication_scores, content_scores,
            behavioral_scores, overall_feedback, assessment, calls>>

\* the HTTP layer's state (its handlers are defined further down)
VARIABLES
    db_sessions,        \* the ai_interview_sessions table, in id order
    db_interactions,    \* the ai_interview_interactions table, in commit order
    requests,           \* per client connection, the request being handled
    api_response       \* the response the last step sent, with the request it answers

apivars == <<db_sessions, db_interactions, requests, api_response>>

\* the context provider's state (its operations are defined further down)
VARIABLES
    vector_store,       \* the documents of the Chroma collection user_contexts
    user_data,          \* per user id, what the users, user_profiles and
                        \* interview_sessions tables hold for it
    index_runs,         \* index_user_context calls so far
    rag_result          \* the last call of the RAG service and what it returned

ragvars == <<vector_store, user_data, index_runs, rag_result>>

\* a call of _parse_json_response
VARIABLES
    parse_text,         \* the text it was given
    parse_result        \* what it returned

parsevars == <<parse_text, parse_result>>

\* the rate limiter's state (its operations are defined further down)
VARIABLES
    clock,              \* datetime.utcnow(), in seconds
    limiter_requests,   \* InMemoryRateLimiter.requests: key -> timestamps
    last_cleanup,       \* InMemoryRateLimiter.last_cleanup
    admitted,           \* the requests is_rate_limited let through, in order
    n_dispatch,         \* requests the middleware has seen
    rate_result         \* the last request the middleware saw and its outcome

rlvars == <<clock, limiter_requests, last_cleanup, admitted, n_dispatch, rate_result>>

vars == <<wfvars, asvars, apivars, ragvars, parsevars, rlvars>>

InterviewTypes == {"behavioral", "technical", "general"}

Nodes == {"prepare_context", "conduct_interview", "analyze_response",
          "check_completion", "generate_feedback"}

\* user_context = f"User ID: {user_id}, Interview Type: {interview_type}"
UserContext(user_id, interview_type) == <<"User ID", user_id, "Interview Type", interview_type>>

PrepareContextNode(s) ==
    [s EXCEPT !.user_context = UserContext(s.user_id, s.interview_type),
              !.current_question_count = 0,
              !.max_questions = DefaultMaxQuestions,
              !.session_status = "active",
              !.analysis_results = <<>>]

\* variant: the except branch swallows the error without appending
ConductInterviewNode_NoApology(s, llm) ==
    IF llm = "ok" THEN [s EXCEPT !.messages = Append(@, LlmReply)] ELSE s

\* llm is "ok" when self.llm.ainvoke returns and "error" when it raises
ConductInterviewNode(s, llm) ==
    IF llm = "ok"
    THEN [s EXCEPT !.messages = Append(@, LlmReply)]
    ELSE [s EXCEPT !.messages = Append(@, ApologyMessage)]

\* analysis_results is a function from question numbers (the key
\* f"question_{n}") to the analysis dict; <<>> is the empty dict
DictSet(d, k, v) == [x \in (DOMAIN d) \cup {k} |-> IF x = k THEN v ELSE d[x]]

\* variant: the analysis is stored under the index of the next question
AnalyzeResponseNode_NextIndex(s) ==
    LET user_messages == SelectType(s.messages, "human")
    IN  IF user_messages = <<>> THEN s
        ELSE LET last_response == user_messages[Len(user_messages)].words
                 analysis == [response_length |-> StrLen(last_response),
                              word_count |-> WordCount(last_response)]
             IN  [s EXCEPT !.analysis_results =
                      DictSet(@, s.current_question_count + 1, analysis)]

AnalyzeResponseNode(s) ==
    LET user_messages == SelectType(s.messages, "human")
    IN  IF user_messages = <<>> THEN s
        ELSE LET last_response == user_messages[Len(user_messages)].words
                 analysis == [response_length |-> StrLen(last_response),
                              word_count |-> WordCount(last_response)]
             IN  [s EXCEPT !.analysis_results =
                      DictSet(@, s.current_question_count, analysis)]

\* variant: completion tested with > instead of >=
CheckCompletionNode_Gt(s) ==
    LET n == s.current_question_count + 1
    IN  [s EXCEPT !.current_question_count = n,
                  !.session_status = IF n > s.max_questions THEN "completed" ELSE @]

CheckCompletionNode(s) ==
    LET n == s.current_question_count + 1
    IN  [s EXCEPT !.current_question_count = n,
                  !.session_status = IF n >= s.max_questions THEN "completed" ELSE @]

\* variant: the two branches of the conditional edge are swapped
ShouldContinue_Swapped(s) == IF s.session_status = "completed" THEN "continue" ELSE "end"

\* variant: the edge never leaves the loop
ShouldContinue_Always(s) == "continue"

ShouldContinue(s) == IF s.session_status = "completed" THEN "end" ELSE "continue"

\* variant: the feedback replaces the history instead of being appended
GenerateFeedbackNode_Overwrite(s, llm) ==
    IF llm = "ok" THEN [s EXCEPT !.messages = <<LlmReply>>] ELSE s

GenerateFeedbackNode(s, llm) ==
    IF llm = "ok" THEN [s EXCEPT !.messages = Append(@, LlmReply)] ELSE s

\* initial_state of start_interview
\* initial_message is Optional[str]: has_message is FALSE for None, and an
\* empty string is not appended either
InitialState(user_id, session_id, interview_type, has_message, initial_message) ==
    [messages |-> IF has_message /\ initial_message # <<>>
                  THEN <<HumanMessage(initial_message)>> ELSE <<>>,
     user_id |-> user_id,
     session_id |-> session_id,
     interview_type |-> interview_type,
     user_context |-> <<>>,
     current_question_count |-> 0,
     max_questions |-> DefaultMaxQuestions,
     session_status |-> "initializing",
     analysis_results |-> <<>>]

\* the history of a run state saved after n questions: n exchanges of a
\* question and its answer
RECURSIVE History(_)
History(n) == IF n = 0 THEN <<>>
              ELSE History(n - 1) \o <<LlmReply, HumanMessage(<<1>>)>>

\* a run state as a caller of continue_interview reloads it after n questions
ReloadedState(user_id, interview_type, n) ==
    [messages |-> History(n),
     user_id |-> user_id,
     session_id |-> user_id,
     interview_type |-> interview_type,
     user_context |-> UserContext(user_id, interview_type),
     current_question_count |-> n,
     max_questions |-> DefaultMaxQuestions,
     session_status |-> IF n >= DefaultMaxQuestions THEN "completed" ELSE "active",
     analysis_results |-> [k \in 0..(n - 1) |->
                              [response_length |-> 1, word_count |-> 1]]]

LastAiContent(msgs, default) ==
    LET ai_messages == SelectType(msgs, "ai")
    IN  IF ai_messages = <<>> THEN default
        ELSE ai_messages[Len(ai_messages)].content

StartResult(s) ==
    [response |-> LastAiContent(s.messages, "Hello! Let's begin the interview."),
     session_status |-> s.session_status,
     question_count |-> s.current_question_count,
     success |-> TRUE]

ContinueResult(s) ==
    [response |-> LastAiContent(s.messages, "Please continue."),
     session_status |-> s.session_status,
     question_count |-> s.current_question_count,
     analysis |-> s.analysis_results,
     success |-> TRUE]

\* the body start_ai_interview returns for the result of start_interview
StartResponse(session_id, res) ==
    [session_id |-> session_id,
     message |-> "Interview started successfully",
     response |-> res.response,
     status |-> res.session_status,
     question_count |-> res.question_count]

NoResult == [returned |-> FALSE]

NoState == [messages |-> <<>>, user_id |-> 0, session_id |-> 0,
            interview_type |-> None, user_context |-> <<>>,
            current_question_count |-> 0, max_questions |-> 0,
            session_status |-> None, analysis_results |-> <<>>]

WfInit ==
    /\ pc = "idle"
    /\ state = NoState
    /\ entry = None
    /\ loaded = NoState
    /\ cycles = 0
    /\ n_prepare = 0
    /\ n_conduct = 0
    /\ n_feedback = 0
    /\ fb_appended = 0
    /\ llm_last = None
    /\ seen_count = -1
    /\ result = NoResult
    /\ http_response = NoResult

BeginRun(e, s) ==
    /\ pc = "idle"
    /\ pc' = "prepare_context"
    /\ state' = s
    /\ loaded' = s
    /\ entry' = e
    /\ cycles' = 0
    /\ n_prepare' = 0
    /\ n_conduct' = 0
    /\ n_feedback' = 0
    /\ fb_appended' = 0
    /\ llm_last' = None
    /\ seen_count' = -1
    /\ result' = NoResult
    /\ http_response' = NoResult
    /\ UNCHANGED <<asvars, apivars, ragvars, parsevars, rlvars>>

\* start_interview up to the call of self.workflow.ainvoke
StartInterview ==
    \E u \in 1..MaxUserId, t \in InterviewTypes, has \in BOOLEAN, m \in UserTexts :
        /\ (~has => m = <<>>)
        /\ BeginRun("start", InitialState(u, u, t, has, m))

\* continue_interview up to the call of self.workflow.ainvoke
ContinueInterview ==
    \E u \in 1..MaxUserId, t \in InterviewTypes, n \in 0..DefaultMaxQuestions,
       m \in UserTexts :
        LET cur == ReloadedState(u, t, n)
        IN  BeginRun("continue", [cur EXCEPT !.messages = Append(@, HumanMessage(m))])

PrepareContext ==
    /\ pc = "prepare_context"
    /\ state' = PrepareContextNode(state)
    /\ n_prepare' = n_prepare + 1
    /\ pc' = "conduct_interview"
    /\ UNCHANGED <<entry, loaded, cycles, n_conduct, n_feedback, fb_appended,
                   llm_last, seen_count, result, http_response>>
    /\ UNCHANGED <<asvars, apivars, ragvars, parsevars, rlvars>>

\* The compiled graph aborts a run that exceeds its superstep limit; the
\* guard on n_conduct stands for it (a run of this graph takes 17 supersteps
\* and never meets the limit).
ConductInterview ==
    /\ pc = "conduct_interview"
    /\ n_conduct < MaxConductSteps
    /\ \E llm \in {"ok", "error"} :
          /\ state' = ConductInterviewNode(state, llm)
          /\ llm_last' = llm
    /\ n_conduct' = n_conduct + 1
    /\ seen_count' = IF n_conduct = 0 THEN state.current_question_count ELSE seen_count
    /\ pc' = "analyze_response"
    /\ UNCHANGED <<entry, loaded, cycles, n_prepare, n_feedback, fb_appended,
                   result, http_response>>
    /\ UNCHANGED <<asvars, apivars, ragvars, parsevars, rlvars>>

AnalyzeResponse ==
    /\ pc = "analyze_response"
    /\ state' = AnalyzeResponseNode(state)
    /\ pc' = "check_completion"
    /\ UNCHANGED <<entry, loaded, cycles, n_prepare, n_conduct, n_feedback,
                   fb_appended, llm_last, seen_count, result, http_response>>
    /\ UNCHANGED <<asvars, apivars, ragvars, parsevars, rlvars>>

\* check_completion followed by the conditional edge _should_continue
CheckCompletion ==
    /\ pc = "check_completion"
    /\ state' = CheckCompletionNode(state)
    /\ cycles' = cycles + 1
    /\ IF ShouldContinue(state') = "end"
       THEN pc' = "generate_feedback" /\ n_feedback' = n_feedback + 1
       ELSE pc' = "conduct_interview" /\ n_feedback' = n_feedback
    /\ UNCHANGED <<entry, loaded, n_prepare, n_conduct, fb_appended, llm_last,
                   seen_count, result, http_response>>
    /\ UNCHANGED <<asvars, apivars, ragvars, parsevars, rlvars>>

GenerateFeedback ==
    /\ pc = "generate_feedback"
    /\ \E llm \in {"ok", "error"} :
          /\ state' = GenerateFeedbackNode(state, llm)
          /\ llm_last' = llm
          /\ fb_appended' = IF llm = "ok" THEN fb_appended + 1 ELSE fb_appended
    /\ pc' = "end"
    /\ UNCHANGED <<entry, loaded, cycles, n_prepare, n_conduct, n_feedback,
                   seen_count, result, http_response>>
    /\ UNCHANGED <<asvars, apivars, ragvars, parsevars, rlvars>>

\* ainvoke has returned: the service method builds its dict, and the start
\* endpoint its response body
ReturnResult ==
    /\ pc = "end"
    /\ pc' = "returned"
    /\ IF entry = "start"
       THEN /\ result' = StartResult(state)
            /\ http_response' = StartResponse(state.session_id, result')
       ELSE /\ result' = ContinueResult(state)
            /\ http_response' = NoResult
    /\ UNCHANGED <<state, entry, loaded, cycles, n_prepare, n_conduct, n_feedback,
                   fb_appended, llm_last, seen_count>>
    /\ UNCHANGED <<asvars, apivars, ragvars, parsevars, rlvars>>

\* the service keeps no run state between calls: the next call starts from
\* a state it builds or is handed
NextCall ==
    /\ pc = "returned"
    /\ pc' = "idle"
    /\ state' = NoState
    /\ loaded' = NoState
    /\ entry' = None
    /\ cycles' = 0
    /\ n_prepare' = 0
    /\ n_conduct' = 0
    /\ n_feedback' = 0
    /\ fb_appended' = 0
    /\ llm_last' = None
    /\ seen_count' = -1
    /\ result' = NoResult
    /\ http_response' = NoResult
    /\ UNCHANGED <<asvars, apivars, ragvars, parsevars, rlvars>>

RunStep ==
    \/ PrepareContext
    \/ ConductInterview
    \/ AnalyzeResponse
    \/ CheckCompletion
    \/ GenerateFeedback
    \/ ReturnResult

WfNext ==
    \/ StartInterview
    \/ ContinueInterview
    \/ RunStep
    \/ NextCall


\* ===================================================== the assessment engine
\* JSON and Python values are records: a number v/d, None/null, a non-numeric
\* string, a list of v items, a text of v characters.
Num(x) == [t |-> "num", v |-> x, d |-> 1]
Frac(x, y) == [t |-> "num", v |-> x, d |-> y]
NullV == [t |-> "null", v |-> 0, d |-> 1]
StrV == [t |-> "str", v |-> 0, d |-> 1]
ListV(n) == [t |-> "list", v |-> n, d |-> 1]
TextV(n) == [t |-> "text", v |-> n, d |-> 1]
IsNum(x) == x.t = "num"

FallbackScore == 70
BaselineWpm == 150

CommKeys == <<"clarity", "confidence", "pace">>
ContentKeys == <<"technical_accuracy", "problem_solving", "structure", "relevance">>
BehavioralKeys == <<"star_method", "leadership", "teamwork">>
FeedbackKeys == <<"strengths", "improvements", "detailed_feedback", "next_steps",
                  "recommended_topics">>

Range(f) == {f[i] : i \in DOMAIN f}

\* ---- the text of a model response: a sequence of tokens. Prose and JSON
\* strings hold no braces, so str.find / str.rfind of a brace are the
\* positions of the brace tokens.
LBrace == [tok |-> "{", k |-> "", v |-> NullV]
RBrace == [tok |-> "}", k |-> "", v |-> NullV]
Prose == [tok |-> "prose", k |-> "", v |-> NullV]
NumberLiteral == [tok |-> "number", k |-> "", v |-> NullV]
Member(k, v) == [tok |-> "member", k |-> k, v |-> v]

EmptyDict == [k \in {} |-> NullV]

\* dict.get(key, default)
Get(dict, key, default) == IF key \in DOMAIN dict THEN dict[key] ELSE default

RECURSIVE MembersToDict(_)
MembersToDict(tokens) ==
    IF tokens = <<>> THEN EmptyDict
    ELSE LET n == Len(tokens)
             rest == MembersToDict(SubSeq(tokens, 1, n - 1))
         IN  [k \in (DOMAIN rest) \cup {tokens[n].k} |->
                 IF k = tokens[n].k THEN tokens[n].v ELSE rest[k]]

\* json.loads: an object of members, a bare number, or a JSONDecodeError
JsonLoads(tokens) ==
    IF /\ Len(tokens) >= 2
       /\ tokens[1] = LBrace
       /\ tokens[Len(tokens)] = RBrace
       /\ \A i \in 2..(Len(tokens) - 1) : tokens[i].tok = "member"
    THEN [kind |-> "dict", d |-> MembersToDict(SubSeq(tokens, 2, Len(tokens) - 1))]
    ELSE IF tokens = <<NumberLiteral>>
         THEN [kind |-> "number", d |-> EmptyDict]
         ELSE [kind |-> "error", d |-> EmptyDict]

\* str.find("{"): 0-based index of the first brace, -1 without one
Find(tokens, tk) ==
    LET hits == {i \in 1..Len(tokens) : tokens[i] = tk}
    IN  IF hits = {} THEN -1 ELSE (CHOOSE i \in hits : \A j \in hits : i <= j) - 1

\* str.rfind("}")
RFind(tokens, tk) ==
    LET hits == {i \in 1..Len(tokens) : tokens[i] = tk}
    IN  IF hits = {} THEN -1 ELSE (CHOOSE i \in hits : \A j \in hits : i >= j) - 1

\* the try block of _parse_json_response: the span from the first "{" to the
\* last "}" when there is one, else the whole response, through json.loads
ExtractAndLoad(response) ==
    LET start == Find(response, LBrace)
        end == RFind(response, RBrace) + 1
    IN  IF start >= 0 /\ end > start
        THEN JsonLoads(SubSeq(response, start + 1, end))
        ELSE JsonLoads(response)

\* _parse_json_response: the value json.loads returns, {} on any exception
ParseJsonResponse(response) ==
    LET loaded_json == ExtractAndLoad(response)
    IN  IF loaded_json.kind = "error"
        THEN [kind |-> "dict", d |-> EmptyDict]
        ELSE loaded_json

\* ---- interactions: role, content (its words) and the optional audio length
Interaction(role, content, audio) ==
    [role |-> role, content |-> content, audio_duration_seconds |-> audio]

\* str.lower() on the words of the model's vocabulary
LowerWord(w) ==
    CASE w = "Like" -> "like"
      [] w = "Um" -> "um"
      [] w = "BEHAVIORAL" -> "behavioral"
      [] w = "Behavioral" -> "behavioral"
      [] OTHER -> w

FillerWords == {"um", "uh", "like", "basically", "actually", "literally"}

\* len(re.findall(filler_patterns, content.lower())): whole-word matches, the
\* two-word phrase "you know" included, scanned left to right
RECURSIVE FillerCount(_)
FillerCount(content) ==
    IF content = <<>> THEN 0
    ELSE IF LowerWord(content[1]) \in FillerWords
         THEN 1 + FillerCount(Tail(content))
         ELSE IF Len(content) >= 2 /\ LowerWord(content[1]) = "you"
                 /\ LowerWord(content[2]) = "know"
              THEN 1 + FillerCount(Tail(Tail(content)))
              ELSE FillerCount(Tail(content))

CandidateInteractions(turns) ==
    SelectSeq(turns, LAMBDA i : i.role = "user")

RECURSIVE TotalWords(_)
TotalWords(cands) ==
    IF cands = <<>> THEN 0 ELSE Len(cands[1].content) + TotalWords(Tail(cands))

\* `if interaction.audio_duration_seconds:` skips None and 0
RECURSIVE TotalDuration(_)
TotalDuration(cands) ==
    IF cands = <<>> THEN 0
    ELSE (IF IsNum(cands[1].audio_duration_seconds)
             /\ cands[1].audio_duration_seconds.v # 0
          THEN cands[1].audio_duration_seconds.v ELSE 0)
         + TotalDuration(Tail(cands))

RECURSIVE TotalFillers(_)
TotalFillers(cands) ==
    IF cands = <<>> THEN 0 ELSE FillerCount(cands[1].content) + TotalFillers(Tail(cands))

\* variant: the words of the interviewer's turns are counted too
WordsPerMinute_AllTurns(turns) ==
    LET cands == CandidateInteractions(turns)
    IN  IF TotalDuration(cands) > 0
        THEN Frac(TotalWords(turns) * 60, TotalDuration(cands))
        ELSE Num(BaselineWpm)

\* (total_words / total_duration * 60) if total_duration > 0 else 150
WordsPerMinute(turns) ==
    LET cands == CandidateInteractions(turns)
    IN  IF TotalDuration(cands) > 0
        THEN Frac(TotalWords(cands) * 60, TotalDuration(cands))
        ELSE Num(BaselineWpm)

\* (a + b) / 2 of two integers
HalfSum(a, b) == IF (a + b) % 2 = 0 THEN Num((a + b) \div 2) ELSE Frac(a + b, 2)

\* ---- a model call: it raises, or it returns a text
LlmError == [err |-> TRUE, text |-> <<>>]
LlmText(text) == [err |-> FALSE, text |-> text]

CommunicationFallback(turns) ==
    [verbal_communication_score |-> Num(FallbackScore),
     clarity_score |-> Num(FallbackScore),
     confidence_score |-> Num(FallbackScore),
     pace_score |-> Num(FallbackScore),
     words_per_minute |-> WordsPerMinute(turns),
     filler_word_count |-> Num(TotalFillers(CandidateInteractions(turns)))]

\* _assess_communication; the except branch also catches the AttributeError
\* of a non-dict payload and the TypeError of (clarity + confidence) / 2
AssessCommunication(turns, llm) ==
    LET parsed == ParseJsonResponse(llm.text)
        clarity == Get(parsed.d, "clarity", Num(FallbackScore))
        confidence == Get(parsed.d, "confidence", Num(FallbackScore))
    IN  IF ~llm.err /\ parsed.kind = "dict" /\ IsNum(clarity) /\ IsNum(confidence)
        THEN [verbal_communication_score |-> HalfSum(clarity.v, confidence.v),
              clarity_score |-> clarity,
              confidence_score |-> confidence,
              pace_score |-> Get(parsed.d, "pace", Num(FallbackScore)),
              words_per_minute |-> WordsPerMinute(turns),
              filler_word_count |-> Num(TotalFillers(CandidateInteractions(turns)))]
        ELSE CommunicationFallback(turns)

\* variant: the fallback of the content pass is 0 instead of 70
AssessContent_ZeroFallback(llm) ==
    LET parsed == ParseJsonResponse(llm.text)
    IN  IF ~llm.err /\ parsed.kind = "dict"
        THEN [technical_accuracy_score |-> Get(parsed.d, "technical_accuracy", Num(0)),
              problem_solving_score |-> Get(parsed.d, "problem_solving", Num(0)),
              structure_score |-> Get(parsed.d, "structure", Num(0)),
              relevance_score |-> Get(parsed.d, "relevance", Num(0))]
        ELSE [technical_accuracy_score |-> Num(0),
              problem_solving_score |-> Num(0),
              structure_score |-> Num(0),
              relevance_score |-> Num(0)]

\* _assess_content
AssessContent(llm) ==
    LET parsed == ParseJsonResponse(llm.text)
    IN  IF ~llm.err /\ parsed.kind = "dict"
        THEN [technical_accuracy_score |-> Get(parsed.d, "technical_accuracy", Num(FallbackScore)),
              problem_solving_score |-> Get(parsed.d, "problem_solving", Num(FallbackScore)),
              structure_score |-> Get(parsed.d, "structure", Num(FallbackScore)),
              relevance_score |-> Get(parsed.d, "relevance", Num(FallbackScore))]
        ELSE [technical_accuracy_score |-> Num(FallbackScore),
              problem_solving_score |-> Num(FallbackScore),
              structure_score |-> Num(FallbackScore),
              relevance_score |-> Num(FallbackScore)]

IsBehavioral(interview_type) == LowerWord(interview_type) = "behavioral"

\* _assess_behavioral; no model call is made for a non-behavioral type
AssessBehavioral(interview_type, llm) ==
    LET parsed == ParseJsonResponse(llm.text)
    IN  IF ~IsBehavioral(interview_type)
        THEN [star_method_score |-> NullV,
              leadership_score |-> NullV,
              teamwork_score |-> NullV]
        ELSE IF ~llm.err /\ parsed.kind = "dict"
             THEN [star_method_score |-> Get(parsed.d, "star_method", Num(FallbackScore)),
                   leadership_score |-> Get(parsed.d, "leadership", Num(FallbackScore)),
                   teamwork_score |-> Get(parsed.d, "teamwork", Num(FallbackScore))]
             ELSE [star_method_score |-> Num(FallbackScore),
                   leadership_score |-> Num(FallbackScore),
                   teamwork_score |-> Num(FallbackScore)]

\* the fixed bundle of the except branch of _generate_overall_feedback
GenericFeedback ==
    [strengths |-> ListV(2),
     weaknesses |-> ListV(1),
     detailed_feedback |-> TextV(53),
     next_steps |-> ListV(1),
     recommended_topics |-> ListV(1)]

\* _generate_overall_feedback
GenerateOverallFeedback(llm) ==
    LET parsed == ParseJsonResponse(llm.text)
    IN  IF ~llm.err /\ parsed.kind = "dict"
        THEN [strengths |-> Get(parsed.d, "strengths", ListV(0)),
              weaknesses |-> Get(parsed.d, "improvements", ListV(0)),
              detailed_feedback |-> Get(parsed.d, "detailed_feedback", TextV(0)),
              next_steps |-> Get(parsed.d, "next_steps", ListV(0)),
              recommended_topics |-> Get(parsed.d, "recommended_topics", ListV(0))]
        ELSE GenericFeedback

\* the three sums of _calculate_overall_score raise a TypeError on a value
\* that is no number; the behavioral sum is only taken when star_method_score
\* is not None
OverallRaises(comm, content, behavioral) ==
    \/ ~IsNum(comm.clarity_score) \/ ~IsNum(comm.confidence_score)
    \/ ~IsNum(comm.pace_score)
    \/ ~IsNum(content.technical_accuracy_score) \/ ~IsNum(content.problem_solving_score)
    \/ ~IsNum(content.structure_score) \/ ~IsNum(content.relevance_score)
    \/ /\ behavioral.star_method_score # NullV
       /\ \/ ~IsNum(behavioral.star_method_score)
          \/ ~IsNum(behavioral.leadership_score)
          \/ ~IsNum(behavioral.teamwork_score)

\* variant: the content weight of AIInterviewSession.calculate_overall_score
\* (0.40) in place of 0.50
OverallSixths_Weight40(comm, content, behavioral) ==
    60 * (comm.clarity_score.v + comm.confidence_score.v + comm.pace_score.v)
    + 60 * (content.technical_accuracy_score.v + content.problem_solving_score.v
            + content.structure_score.v + content.relevance_score.v)
    + (IF behavioral.star_method_score # NullV
       THEN 40 * (behavioral.star_method_score.v + behavioral.leadership_score.v
                  + behavioral.teamwork_score.v)
       ELSE 0)

\* sum(scores) of _calculate_overall_score in units of 1/600:
\* 0.30 * c / 3 = 60 c / 600, 0.50 * k / 4 = 75 k / 600, 0.20 * b / 3 = 40 b / 600
OverallSixths(comm, content, behavioral) ==
    60 * (comm.clarity_score.v + comm.confidence_score.v + comm.pace_score.v)
    + 75 * (content.technical_accuracy_score.v + content.problem_solving_score.v
            + content.structure_score.v + content.relevance_score.v)
    + (IF behavioral.star_method_score # NullV
       THEN 40 * (behavioral.star_method_score.v + behavioral.leadership_score.v
                  + behavioral.teamwork_score.v)
       ELSE 0)

\* round(x, 2) of x = n / 600, in hundredths. The float sum carries rounding
\* error, so a value that lies exactly between two hundredths goes to either.
Round2(n) ==
    LET q == n \div 6
        r == n % 6
    IN  IF r < 3 THEN {q} ELSE IF r > 3 THEN {q + 1} ELSE {q, q + 1}

\* _calculate_overall_score: the values round(sum(scores), 2) can take
CalculateOverallScore(comm, content, behavioral) ==
    {Frac(h, 100) : h \in Round2(OverallSixths(comm, content, behavioral))}

\* ---- the responses the model calls are drawn from
ScoreVals == {55 * k : k \in 1..MaxScoreIdx}

Uniform(keys, v) == [k \in Range(keys) |-> Num(v)]
WithValue(keys, v, dk, w) == [k \in Range(keys) |-> IF k = dk THEN w ELSE Num(v)]
Without(payload, dk) == [k \in (DOMAIN payload) \ {dk} |-> payload[k]]

\* the keys a payload may have null, non-numeric or missing: the first and
\* the last of its pass
DeviatingKeys(keys) == {keys[1], keys[Len(keys)]}

\* a payload with every key at one score, or with one key null, non-numeric
\* or missing
ScorePayloads(keys) ==
    {Uniform(keys, v) : v \in ScoreVals}
    \cup {WithValue(keys, v, dk, w) :
             v \in ScoreVals, dk \in DeviatingKeys(keys), w \in {NullV, StrV}}
    \cup {Without(Uniform(keys, v), dk) : v \in ScoreVals, dk \in DeviatingKeys(keys)}

FeedbackFull ==
    [k \in Range(FeedbackKeys) |-> IF k = "detailed_feedback" THEN TextV(120) ELSE ListV(3)]

FeedbackPayloads ==
    {FeedbackFull, [Without(FeedbackFull, "improvements") EXCEPT !["strengths"] = NullV]}

RECURSIVE MembersOf(_, _)
MembersOf(keys, payload) ==
    IF keys = <<>> THEN <<>>
    ELSE (IF Head(keys) \in DOMAIN payload
          THEN <<Member(Head(keys), payload[Head(keys)])>> ELSE <<>>)
         \o MembersOf(Tail(keys), payload)

\* the JSON text of a payload
Dumps(keys, payload) == <<LBrace>> \o MembersOf(keys, payload) \o <<RBrace>>

\* texts without a usable payload: prose alone, a bare number, braces in the
\* wrong order, two objects with prose between them
JunkTexts(keys, payload) ==
    {<<Prose>>, <<NumberLiteral>>, <<RBrace, Prose, LBrace>>,
     Dumps(keys, payload) \o <<Prose>> \o Dumps(keys, payload)}

ResponseTexts(keys, payloads) ==
    {Dumps(keys, p) : p \in payloads}
    \cup {<<Prose>> \o Dumps(keys, p) \o <<Prose>> : p \in payloads}
    \cup UNION {JunkTexts(keys, p) : p \in payloads}

LlmOutcomes(keys, payloads) ==
    {LlmError} \cup {LlmText(t) : t \in ResponseTexts(keys, payloads)}

\* what a model call did: "error" (it raised), "unparseable" (its text holds
\* no JSON object) or "payload" (with the object it holds)
Classify(llm) ==
    IF llm.err THEN [kind |-> "error", payload |-> EmptyDict]
    ELSE IF ExtractAndLoad(llm.text).kind = "dict"
         THEN [kind |-> "payload", payload |-> ExtractAndLoad(llm.text).d]
         ELSE [kind |-> "unparseable", payload |-> EmptyDict]

NoCall == [kind |-> "none", payload |-> EmptyDict]

TranscriptNoAudio ==
    <<Interaction("assistant", <<"question">>, NullV),
      Interaction("user", <<"Like", "you", "know", "liked">>, NullV)>>

TranscriptAudio ==
    <<Interaction("assistant", <<"question">>, NullV),
      Interaction("user", <<"um", "answer", "answer">>, Num(30)),
      Interaction("assistant", <<"question">>, NullV),
      Interaction("user", <<"answer">>, NullV)>>

Transcripts == {TranscriptNoAudio, TranscriptAudio}

Unset == [unset |-> TRUE]

NewSession(interview_type) ==
    [id |-> 1,
     interview_type |-> interview_type,
     overall_score |-> NullV,
     verbal_communication_score |-> NullV,
     clarity_score |-> NullV,
     confidence_score |-> NullV,
     pace_score |-> NullV,
     technical_accuracy_score |-> NullV,
     problem_solving_score |-> NullV,
     structure_score |-> NullV,
     relevance_score |-> NullV,
     star_method_score |-> NullV,
     leadership_score |-> NullV,
     teamwork_score |-> NullV,
     strengths |-> NullV,
     weaknesses |-> NullV,
     improvements |-> NullV,
     detailed_feedback |-> NullV,
     recommended_topics |-> NullV,
     next_steps |-> NullV]

\* the one-key JSON object a feedback list is stored under, {key: value}
JsonObject(key, value) == [key |-> key, value |-> value]

\* variant: a None of the bundle does not overwrite the column
UpdateSessionScores_KeepOnNone(sess, a) ==
    [sess EXCEPT
        !.overall_score = a.overall_score,
        !.verbal_communication_score = a.communication_scores.verbal_communication_score,
        !.clarity_score = a.communication_scores.clarity_score,
        !.confidence_score = a.communication_scores.confidence_score,
        !.pace_score = a.communication_scores.pace_score,
        !.technical_accuracy_score = a.content_scores.technical_accuracy_score,
        !.problem_solving_score = a.content_scores.problem_solving_score,
        !.structure_score = a.content_scores.structure_score,
        !.relevance_score = a.content_scores.relevance_score,
        !.star_method_score = IF a.behavioral_scores.star_method_score = NullV THEN @
                              ELSE a.behavioral_scores.star_method_score,
        !.leadership_score = a.behavioral_scores.leadership_score,
        !.teamwork_score = a.behavioral_scores.teamwork_score,
        !.strengths = JsonObject("strengths", a.feedback.strengths),
        !.weaknesses = JsonObject("weaknesses", a.feedback.weaknesses),
        !.improvements = JsonObject("improvements", a.feedback.weaknesses),
        !.detailed_feedback = a.feedback.detailed_feedback,
        !.recommended_topics = JsonObject("topics", a.feedback.recommended_topics),
        !.next_steps = JsonObject("steps", a.feedback.next_steps)]

\* _update_session_scores
UpdateSessionScores(sess, a) ==
    [sess EXCEPT
        !.overall_score = a.overall_score,
        !.verbal_communication_score = a.communication_scores.verbal_communication_score,
        !.clarity_score = a.communication_scores.clarity_score,
        !.confidence_score = a.communication_scores.confidence_score,
        !.pace_score = a.communication_scores.pace_score,
        !.technical_accuracy_score = a.content_scores.technical_accuracy_score,
        !.problem_solving_score = a.content_scores.problem_solving_score,
        !.structure_score = a.content_scores.structure_score,
        !.relevance_score = a.content_scores.relevance_score,
        !.star_method_score = a.behavioral_scores.star_method_score,
        !.leadership_score = a.behavioral_scores.leadership_score,
        !.teamwork_score = a.behavioral_scores.teamwork_score,
        !.strengths = JsonObject("strengths", a.feedback.strengths),
        !.weaknesses = JsonObject("weaknesses", a.feedback.weaknesses),
        !.improvements = JsonObject("improvements", a.feedback.weaknesses),
        !.detailed_feedback = a.feedback.detailed_feedback,
        !.recommended_topics = JsonObject("topics", a.feedback.recommended_topics),
        !.next_steps = JsonObject("steps", a.feedback.next_steps)]

NoCalls == [p \in {"communication", "content", "behavioral", "feedback"} |-> NoCall]

AsIdle(interview_type, transcript) ==
    /\ apc = "idle"
    /\ session = NewSession(interview_type)
    /\ interactions = transcript
    /\ communication_scores = Unset
    /\ content_scores = Unset
    /\ behavioral_scores = Unset
    /\ overall_feedback = Unset
    /\ assessment = Unset
    /\ calls = NoCalls

AsInit == \E t \in {"behavioral", "general"}, tr \in Transcripts : AsIdle(t, tr)

\* assess_interview_session up to the first pass: the session is fetched, and
\* a session that is not there raises ValueError
BeginAssess ==
    /\ apc = "idle"
    /\ \E session_id \in {session.id, session.id + 1} :
          apc' = IF session_id = session.id THEN "communication" ELSE "raised"
    /\ UNCHANGED <<session, interactions, communication_scores, content_scores,
                   behavioral_scores, overall_feedback, assessment, calls>>
    /\ UNCHANGED <<wfvars, apivars, ragvars, parsevars, rlvars>>

CommunicationPass ==
    /\ apc = "communication"
    /\ \E llm \in LlmOutcomes(CommKeys, ScorePayloads(CommKeys)) :
          /\ communication_scores' = AssessCommunication(interactions, llm)
          /\ calls' = [calls EXCEPT !["communication"] = Classify(llm)]
    /\ apc' = "content"
    /\ UNCHANGED <<session, interactions, content_scores, behavioral_scores,
                   overall_feedback, assessment>>
    /\ UNCHANGED <<wfvars, apivars, ragvars, parsevars, rlvars>>

ContentPass ==
    /\ apc = "content"
    /\ \E llm \in LlmOutcomes(ContentKeys, ScorePayloads(ContentKeys)) :
          /\ content_scores' = AssessContent(llm)
          /\ calls' = [calls EXCEPT !["content"] = Classify(llm)]
    /\ apc' = "behavioral"
    /\ UNCHANGED <<session, interactions, communication_scores, behavioral_scores,
                   overall_feedback, assessment>>
    /\ UNCHANGED <<wfvars, apivars, ragvars, parsevars, rlvars>>

BehavioralPass ==
    /\ apc = "behavioral"
    /\ IF IsBehavioral(session.interview_type)
       THEN \E llm \in LlmOutcomes(BehavioralKeys, ScorePayloads(BehavioralKeys)) :
               /\ behavioral_scores' = AssessBehavioral(session.interview_type, llm)
               /\ calls' = [calls EXCEPT !["behavioral"] = Classify(llm)]
       ELSE /\ behavioral_scores' = AssessBehavioral(session.interview_type, LlmError)
            /\ calls' = calls
    /\ apc' = "feedback"
    /\ UNCHANGED <<session, interactions, communication_scores, content_scores,
                   overall_feedback, assessment>>
    /\ UNCHANGED <<wfvars, apivars, ragvars, parsevars, rlvars>>

FeedbackPass ==
    /\ apc = "feedback"
    /\ \E llm \in LlmOutcomes(FeedbackKeys, FeedbackPayloads) :
          /\ overall_feedback' = GenerateOverallFeedback(llm)
          /\ calls' = [calls EXCEPT !["feedback"] = Classify(llm)]
    /\ apc' = "calculate"
    /\ UNCHANGED <<session, interactions, communication_scores, content_scores,
                   behavioral_scores, assessment>>
    /\ UNCHANGED <<wfvars, apivars, ragvars, parsevars, rlvars>>

\* the rest of assess_interview_session: the overall score, the bundle, the
\* update of the session and the return; an exception is logged and re-raised
FinishAssess ==
    /\ apc = "calculate"
    /\ IF OverallRaises(communication_scores, content_scores, behavioral_scores)
       THEN /\ apc' = "raised"
            /\ UNCHANGED <<session, assessment>>
       ELSE /\ \E overall_score \in CalculateOverallScore(communication_scores,
                                        content_scores, behavioral_scores) :
                  assessment' = [overall_score |-> overall_score,
                                 communication_scores |-> communication_scores,
                                 content_scores |-> content_scores,
                                 behavioral_scores |-> behavioral_scores,
                                 feedback |-> overall_feedback]
            /\ session' = UpdateSessionScores(session, assessment')
            /\ apc' = "done"
    /\ UNCHANGED <<interactions, communication_scores, content_scores,
                   behavioral_scores, overall_feedback, calls>>
    /\ UNCHANGED <<wfvars, apivars, ragvars, parsevars, rlvars>>

AsNext ==
    \/ BeginAssess
    \/ CommunicationPass
    \/ ContentPass
    \/ BehavioralPass
    \/ FeedbackPass
    \/ FinishAssess

\* ============================================================ the HTTP layer
\* The handlers of app/api/endpoints/ai_interview.py. A handler runs in steps
\* that end where it commits to the database or answers; the steps of two
\* requests interleave. FastAPI validates the body against its schema before
\* the handler runs. Every request carries a valid token of one of the users.
MaxSessions == 1        \* rows the sessions table can take
MaxInteractions == 3    \* rows the interactions table can take

Clients == {"c1", "c2"}

ApiUsers == {1, 2}

\* a datetime.utcnow() value
Timestamp == [t |-> "datetime", v |-> 0, d |-> 1]

\* ---- request bodies
\* a string field of a body: absent, or a text of chars characters
Absent == [present |-> FALSE, chars |-> 0, words |-> <<>>]
Text(chars, words) == [present |-> TRUE, chars |-> chars, words |-> words]

SessionCreateBodies ==
    {[title |-> t, interview_type |-> it] :
        t \in {Absent, Text(0, <<>>), Text(255, <<"T">>), Text(256, <<"T">>)},
        it \in {"behavioral"}}

MessageSendBodies ==
    {[message |-> m, audio_duration_seconds |-> NullV] :
        m \in {Absent, Text(0, <<>>), Text(9, <<"um", "answer">>)}}

NoBody == [none |-> TRUE]

\* variant: the title is optional
ValidSessionCreate_TitleOptional(session_data) ==
    session_data.title.present =>
        (session_data.title.chars >= 1 /\ session_data.title.chars <= 255)

\* AIInterviewSessionCreate: title: str = Field(..., min_length=1, max_length=255)
ValidSessionCreate(session_data) ==
    /\ session_data.title.present
    /\ session_data.title.chars >= 1
    /\ session_data.title.chars <= 255

\* AIInterviewMessageSend: message: str = Field(..., min_length=1)
ValidMessageSend(message_data) ==
    /\ message_data.message.present
    /\ message_data.message.chars >= 1

\* ---- rows
\* AIInterviewSession(...) of start_ai_interview after commit and refresh
CreateSession(id, user_id, session_data) ==
    [NewSession(session_data.interview_type) EXCEPT !.id = id]
    @@ [user_id |-> user_id,
        title |-> session_data.title.words,
        status |-> "active",
        started_at |-> Timestamp,
        completed_at |-> NullV]

\* variant: the status is set without the completion time
CompleteSession_NoTimestamp(sess) == [sess EXCEPT !.status = "completed"]

\* session.status = SessionStatus.COMPLETED; session.completed_at = utcnow()
CompleteSession(sess) ==
    [sess EXCEPT !.status = "completed", !.completed_at = Timestamp]

InteractionRow(session_id, role, content, audio) ==
    Interaction(role, content, audio) @@ [session_id |-> session_id]

\* the words of the texts the workflow answers with
WordsOf(content) ==
    CASE content = "llm_reply" -> <<"Go", "on">>
      [] content = "apology" -> <<"I", "apologize,", "but", "I", "encountered", "an",
                                  "error.", "Let's", "continue.">>
      [] OTHER -> <<"Hello!", "Let's", "begin", "the", "interview.">>

\* "Thank you for your response. Let me ask you another question..."
MockResponse ==
    <<"Thank", "you", "for", "your", "response.", "Let", "me", "ask", "you",
      "another", "question...">>

\* select(AIInterviewSession).where(id == session_id, user_id == current_user.id)
\* found a row
\* variant: the lookup ignores the owner
Owns_AnyUser(sessions, user_id, session_id) == session_id \in DOMAIN sessions

Owns(sessions, user_id, session_id) ==
    /\ session_id \in DOMAIN sessions
    /\ sessions[session_id].user_id = user_id

\* select(AIInterviewInteraction).where(session_id == ...).order_by(created_at)
SessionInteractions(rows, session_id) ==
    SelectSeq(rows, LAMBDA i : i.session_id = session_id)

\* ---- the services the handlers call
\* self.workflow.ainvoke(initial_state): the final state of the run, the
\* model calls of the conduct steps doing llm.conduct and the one of the
\* feedback step llm.feedback; aborted is TRUE when the graph runner stops the
\* run at its step limit
RECURSIVE RunLoop(_, _, _)
RunLoop(s, llm, steps) ==
    IF steps >= MaxConductSteps THEN [aborted |-> TRUE, state |-> s]
    ELSE LET checked == CheckCompletionNode(AnalyzeResponseNode(
                            ConductInterviewNode(s, llm.conduct)))
         IN  IF ShouldContinue(checked) = "end"
             THEN [aborted |-> FALSE, state |-> GenerateFeedbackNode(checked, llm.feedback)]
             ELSE RunLoop(checked, llm, steps + 1)

Ainvoke(initial_state, llm) == RunLoop(PrepareContextNode(initial_state), llm, 0)

\* the dict of the except branch of start_interview (it has no question_count)
StartErrorResult ==
    [response |-> "start_error", session_status |-> "error", success |-> FALSE,
     error |-> "str(e)"]

\* start_interview: the except branch is taken when workflow.ainvoke raises,
\* which the nodes' own handlers leave to the graph runner
StartInterviewResult(user_id, session_id, interview_type, llm) ==
    LET run == Ainvoke(InitialState(user_id, session_id, interview_type, FALSE, <<>>), llm)
    IN  IF llm.ainvoke = "error" \/ run.aborted THEN StartErrorResult
        ELSE StartResult(run.state)

\* the model calls of a run all return, or all raise; or the graph runner
\* itself raises out of ainvoke
WorkflowLlm ==
    {[conduct |-> o, feedback |-> o, ainvoke |-> "ok"] : o \in {"ok", "error"}}
    \cup {[conduct |-> "ok", feedback |-> "ok", ainvoke |-> "error"]}

\* assess_interview_session for a session that is there: the bundles it can
\* return (the rounding of a tie in the overall score goes either way), none
\* when it raises
AssessBundles(sess, turns, llms) ==
    LET comm == AssessCommunication(turns, llms.communication)
        content == AssessContent(llms.content)
        behavioral == AssessBehavioral(sess.interview_type, llms.behavioral)
        feedback == GenerateOverallFeedback(llms.feedback)
    IN  IF OverallRaises(comm, content, behavioral) THEN {}
        ELSE {[overall_score |-> o,
               communication_scores |-> comm,
               content_scores |-> content,
               behavioral_scores |-> behavioral,
               feedback |-> feedback] :
                 o \in CalculateOverallScore(comm, content, behavioral)}

FullText(keys) == LlmText(Dumps(keys, Uniform(keys, 55)))

\* what the four model calls of one assessment do: all raise, all return a
\* full payload, or the content call returns a null score
AssessLlms ==
    {[communication |-> LlmError, content |-> LlmError, behavioral |-> LlmError,
      feedback |-> LlmError],
     [communication |-> FullText(CommKeys), content |-> FullText(ContentKeys),
      behavioral |-> FullText(BehavioralKeys),
      feedback |-> LlmText(Dumps(FeedbackKeys, FeedbackFull))],
     [communication |-> FullText(CommKeys),
      content |-> LlmText(Dumps(ContentKeys,
                                WithValue(ContentKeys, 55, "relevance", NullV))),
      behavioral |-> FullText(BehavioralKeys),
      feedback |-> LlmText(<<Prose>>)]}

\* ---- requests
Idle == [op |-> "none", step |-> "idle", user |-> 0, session_id |-> 0,
         body |-> NoBody, calls |-> 0]

InFlight(op, step, user, session_id, body, n_calls) ==
    [op |-> op, step |-> step, user |-> user, session_id |-> session_id,
     body |-> body, calls |-> n_calls]

\* the answer to a request: its status code and body; calls counts the
\* calls of the workflow and of the assessment engine the handler made
Response(req, code, out) ==
    [op |-> req.op, user |-> req.user, session_id |-> req.session_id,
     body |-> req.body, calls |-> req.calls, code |-> code, out |-> out]

Detail(text) == [detail |-> text]

NoResponse == Response(Idle, 0, NoResult)

Answer(c, req, code, out) ==
    /\ requests' = [requests EXCEPT ![c] = Idle]
    /\ api_response' = Response(req, code, out)

Proceed(c, req) ==
    /\ requests' = [requests EXCEPT ![c] = req]
    /\ api_response' = NoResponse

ApiIdle ==
    /\ db_sessions = <<>>
    /\ db_interactions = <<>>
    /\ requests = [c \in Clients |-> Idle]
    /\ api_response = NoResponse

\* ---- POST /sessions
\* start_ai_interview up to the first commit; a body the schema rejects is
\* answered 422 without the handler running
StartCreate(c) ==
    /\ requests[c].step = "idle"
    /\ \E user \in ApiUsers, session_data \in SessionCreateBodies :
          IF ~ValidSessionCreate(session_data)
          THEN /\ Answer(c, InFlight("start", "validate", user, 0, session_data, 0),
                         422, Detail("validation"))
               /\ UNCHANGED <<db_sessions, db_interactions>>
          ELSE /\ Len(db_sessions) < MaxSessions
               /\ db_sessions' = Append(db_sessions,
                      CreateSession(Len(db_sessions) + 1, user, session_data))
               /\ Proceed(c, InFlight("start", "created", user, Len(db_sessions) + 1,
                                      session_data, 0))
               /\ UNCHANGED db_interactions
    /\ UNCHANGED <<wfvars, asvars, ragvars, parsevars, rlvars>>

\* the rest of start_ai_interview: the workflow run, the first interaction
\* and the answer; an error result has no question_count, the KeyError is
\* answered 500
StartRun(c) ==
    LET req == requests[c]
        called == [req EXCEPT !.calls = @ + 1]
    IN  /\ req.op = "start" /\ req.step = "created"
        /\ \E llm \in WorkflowLlm :
              LET res == StartInterviewResult(req.user, req.session_id,
                                              req.body.interview_type, llm)
              IN  IF res.success
                  THEN /\ Len(db_interactions) < MaxInteractions
                       /\ db_interactions' = Append(db_interactions,
                              InteractionRow(req.session_id, "assistant",
                                             WordsOf(res.response), NullV))
                       /\ Answer(c, called, 201, StartResponse(req.session_id, res))
                  ELSE /\ UNCHANGED db_interactions
                       /\ Answer(c, called, 500, Detail("Error starting interview session"))
        /\ UNCHANGED db_sessions
        /\ UNCHANGED <<wfvars, asvars, ragvars, parsevars, rlvars>>

\* ---- POST /sessions/{session_id}/message
\* send_interview_message up to its checks
SendCheck(c) ==
    /\ requests[c].step = "idle"
    /\ \E user \in ApiUsers, session_id \in 1..(MaxSessions + 1),
          message_data \in MessageSendBodies :
          LET req == InFlight("send", "checked", user, session_id, message_data, 0)
          IN  IF ~ValidMessageSend(message_data)
              THEN Answer(c, req, 422, Detail("validation"))
              ELSE IF ~Owns(db_sessions, user, session_id)
              THEN Answer(c, req, 404, Detail("Session not found"))
              ELSE IF db_sessions[session_id].status # "active"
              THEN Answer(c, req, 400, Detail("Session is not active"))
              ELSE Proceed(c, req)
    /\ UNCHANGED <<db_sessions, db_interactions>>
    /\ UNCHANGED <<wfvars, asvars, ragvars, parsevars, rlvars>>

\* the user's message is committed
SendSaveUser(c) ==
    LET req == requests[c]
    IN  /\ req.op = "send" /\ req.step = "checked"
        /\ Len(db_interactions) < MaxInteractions
        /\ db_interactions' = Append(db_interactions,
               InteractionRow(req.session_id, "user", req.body.message.words,
                              req.body.audio_duration_seconds))
        /\ Proceed(c, [req EXCEPT !.step = "user_saved"])
        /\ UNCHANGED db_sessions
        /\ UNCHANGED <<wfvars, asvars, ragvars, parsevars, rlvars>>

\* the fixed reply is committed and answered; the workflow is not called
SendSaveReply(c) ==
    LET req == requests[c]
    IN  /\ req.op = "send" /\ req.step = "user_saved"
        /\ Len(db_interactions) < MaxInteractions
        /\ db_interactions' = Append(db_interactions,
               InteractionRow(req.session_id, "assistant", MockResponse, NullV))
        /\ Answer(c, req, 200,
                  [session_id |-> req.session_id, response |-> MockResponse,
                   status |-> "active", question_count |-> 1, analysis |-> NullV])
        /\ UNCHANGED db_sessions
        /\ UNCHANGED <<wfvars, asvars, ragvars, parsevars, rlvars>>

\* ---- POST /sessions/{session_id}/complete
\* complete_ai_interview up to its commit
CompleteCommit(c) ==
    /\ requests[c].step = "idle"
    /\ \E user \in ApiUsers, session_id \in 1..(MaxSessions + 1) :
          LET req == InFlight("complete", "completed", user, session_id, NoBody, 0)
          IN  IF ~Owns(db_sessions, user, session_id)
              THEN /\ Answer(c, req, 404, Detail("Session not found"))
                   /\ UNCHANGED db_sessions
              ELSE /\ db_sessions' = [db_sessions EXCEPT
                                         ![session_id] = CompleteSession(@)]
                   /\ Proceed(c, req)
    /\ UNCHANGED db_interactions
    /\ UNCHANGED <<wfvars, asvars, ragvars, parsevars, rlvars>>

\* the assessment a handler runs, and its answer: on a returned bundle the
\* refreshed row (as_row) or the bundle, 500 when assess_interview_session
\* raises
RunAssessment(c, as_row) ==
    LET req == requests[c]
        called == [req EXCEPT !.calls = @ + 1]
        sess == db_sessions[req.session_id]
        turns == SessionInteractions(db_interactions, req.session_id)
    IN  \E llms \in AssessLlms :
           LET bundles == AssessBundles(sess, turns, llms)
           IN  IF bundles = {}
               THEN /\ UNCHANGED db_sessions
                    /\ Answer(c, called, 500, Detail("error"))
               ELSE \E a \in bundles :
                       /\ db_sessions' = [db_sessions EXCEPT ![req.session_id] =
                                             UpdateSessionScores(@, a)]
                       /\ Answer(c, called, 200,
                                 IF as_row THEN UpdateSessionScores(sess, a)
                                 ELSE a @@ [session_id |-> req.session_id])

\* the rest of complete_ai_interview: the assessment, and the refreshed row
CompleteAssess(c) ==
    /\ requests[c].op = "complete" /\ requests[c].step = "completed"
    /\ RunAssessment(c, TRUE)
    /\ UNCHANGED db_interactions
    /\ UNCHANGED <<wfvars, asvars, ragvars, parsevars, rlvars>>

\* ---- POST /sessions/{session_id}/assess
AssessVerify(c) ==
    /\ requests[c].step = "idle"
    /\ \E user \in ApiUsers, session_id \in 1..(MaxSessions + 1) :
          LET req == InFlight("assess", "verified", user, session_id, NoBody, 0)
          IN  IF ~Owns(db_sessions, user, session_id)
              THEN Answer(c, req, 404, Detail("Session not found"))
              ELSE Proceed(c, req)
    /\ UNCHANGED <<db_sessions, db_interactions>>
    /\ UNCHANGED <<wfvars, asvars, ragvars, parsevars, rlvars>>

AssessRun(c) ==
    /\ requests[c].op = "assess" /\ requests[c].step = "verified"
    /\ RunAssessment(c, FALSE)
    /\ UNCHANGED db_interactions
    /\ UNCHANGED <<wfvars, asvars, ragvars, parsevars, rlvars>>

\* ---- GET /sessions/{session_id}
GetSession(c) ==
    /\ requests[c].step = "idle"
    /\ \E user \in ApiUsers, session_id \in 1..(MaxSessions + 1) :
          LET req == InFlight("get", "fetch", user, session_id, NoBody, 0)
          IN  IF ~Owns(db_sessions, user, session_id)
              THEN Answer(c, req, 404, Detail("Session not found"))
              ELSE Answer(c, req, 200,
                          db_sessions[session_id]
                          @@ [interactions |->
                                 SessionInteractions(db_interactions, session_id)])
    /\ UNCHANGED <<db_sessions, db_interactions>>
    /\ UNCHANGED <<wfvars, asvars, ragvars, parsevars, rlvars>>

\* a step of the request on connection c
Handle(c) ==
    \/ StartCreate(c)
    \/ StartRun(c)
    \/ SendCheck(c)
    \/ SendSaveUser(c)
    \/ SendSaveReply(c)
    \/ CompleteCommit(c)
    \/ CompleteAssess(c)
    \/ AssessVerify(c)
    \/ AssessRun(c)
    \/ GetSession(c)

\* requests handled one after the other, on one connection
ApiNext == Handle("c1")

\* requests on both connections, their steps interleaved
ConcurrentApiNext == \E c \in Clients : Handle(c)

\* ===================================================== the context provider
\* RAGService of app/services/rag_service.py. A document is identified by the
\* index run that added it (the store gives each added document a fresh id)
\* and its position in the run; its page_content is named by the user whose
\* rows it was built from and the part of them it holds.
MaxIndexRuns == 2       \* index_user_context calls in one behaviour

RagUsers == {1, 2}

\* what the database holds for a user id: no users row; a user without
\* profile and history; a profile whose fields are all empty; a profile with
\* a role and a one-chunk resume; no profile and one past session
NoUserRow == [exists |-> FALSE, profile |-> "none", resume_chunks |-> 0, sessions |-> 0]
UserRows ==
    {NoUserRow,
     [exists |-> TRUE, profile |-> "none", resume_chunks |-> 0, sessions |-> 0],
     [exists |-> TRUE, profile |-> "blank", resume_chunks |-> 0, sessions |-> 0],
     [exists |-> TRUE, profile |-> "filled", resume_chunks |-> 1, sessions |-> 0],
     [exists |-> TRUE, profile |-> "none", resume_chunks |-> 0, sessions |-> 1]}

\* Document(page_content=..., metadata={"user_id": user_id, "type": type, ...})
Document(run, user_id, type, part) ==
    [id |-> <<run, type, part>>,
     page_content |-> [of |-> user_id, what |-> type, part |-> part],
     metadata |-> [user_id |-> user_id, type |-> type]]

\* UserProfile.to_context_string() is not ""
HasProfileContext(row) == row.profile = "filled"

\* the documents list index_user_context builds
BuildDocuments(run, user_id, row) ==
    {Document(run, user_id, "basic_info", 0)}
    \cup (IF HasProfileContext(row) THEN {Document(run, user_id, "profile", 0)} ELSE {})
    \cup {Document(run, user_id, "resume", i) : i \in 1..row.resume_chunks}
    \cup {Document(run, user_id, "session_history", i) : i \in 1..row.sessions}

\* self.vector_store.delete(where={"user_id": user_id}); a failure is logged
\* and the documents stay
DeleteWhere(store, user_id, outcome) ==
    IF outcome = "error" THEN store
    ELSE {d \in store : d.metadata.user_id # user_id}

StoreOutcomes == {"ok", "error"}

NoRag == [op |-> "none", user_id |-> 0, k |-> 0, query |-> "none", store |-> "ok",
          raised |-> FALSE, success |-> FALSE, docs |-> {}, prompt |-> <<>>,
          summary |-> "none"]

RagIdle ==
    /\ vector_store = {}
    /\ user_data = [u \in RagUsers |-> NoUserRow]
    /\ index_runs = 0
    /\ rag_result = NoRag

\* index_user_context: False when the user is missing or the database or
\* add_documents raises, True once the documents are added
IndexUserContext ==
    /\ index_runs < MaxIndexRuns
    /\ index_runs' = index_runs + 1
    /\ \E user_id \in RagUsers, db \in StoreOutcomes, del \in StoreOutcomes,
          add \in StoreOutcomes :
          LET row == user_data[user_id]
              documents == BuildDocuments(index_runs + 1, user_id, row)
              kept == DeleteWhere(vector_store, user_id, del)
              res == [NoRag EXCEPT !.op = "index", !.user_id = user_id]
          IN  IF db = "error" \/ ~row.exists
              THEN /\ vector_store' = vector_store
                   /\ rag_result' = [res EXCEPT !.store = db]
              ELSE IF add = "error"
              THEN /\ vector_store' = kept
                   /\ rag_result' = [res EXCEPT !.store = "error"]
              ELSE /\ vector_store' = kept \cup documents
                   /\ rag_result' = [res EXCEPT !.success = TRUE]
    /\ UNCHANGED user_data
    /\ UNCHANGED <<wfvars, asvars, apivars, parsevars, rlvars>>

Least(a, b) == IF a <= b THEN a ELSE b

\* variant: the search is not filtered by user
SimilaritySearch_NoFilter(store, k, user_id) ==
    {R \in SUBSET store : Cardinality(R) = Least(k, Cardinality(store))}

\* vector_store.similarity_search(query, k=k, filter={"user_id": user_id}):
\* the k documents of the user nearest the query, all of them when there are
\* fewer; which ones are nearest is the embedding's matter
SimilaritySearch(store, k, user_id) ==
    LET mine == {d \in store : d.metadata.user_id = user_id}
    IN  {R \in SUBSET mine : Cardinality(R) = Least(k, Cardinality(mine))}

\* the dicts retrieve_user_context makes of the documents found
ContextDocs(results) ==
    {[content |-> d.page_content, metadata |-> d.metadata, type |-> d.metadata.type] :
        d \in results}

ReturnedDocs(docs) == [raised |-> FALSE, docs |-> docs]
StoreError == [raised |-> TRUE, docs |-> {}]

\* variant: the failure of the store is passed on
RetrieveUserContext_Raises(store, user_id, query, k, outcome) ==
    IF outcome = "error" THEN {StoreError}
    ELSE {ReturnedDocs(ContextDocs(R)) : R \in SimilaritySearch(store, k, user_id)}

\* retrieve_user_context: what it can return
RetrieveUserContext(store, user_id, query, k, outcome) ==
    IF outcome = "error" THEN {ReturnedDocs({})}
    ELSE {ReturnedDocs(ContextDocs(R)) : R \in SimilaritySearch(store, k, user_id)}

\* variant: the prompt is the joined context
PersonalizedPrompt_ContextOnly(interview_type, context_docs) ==
    IF context_docs = {} THEN <<>> ELSE <<"context_parts">>

\* the prompt of the try branch of build_personalized_prompt, as its segments
PersonalizedPrompt(interview_type, context_docs) ==
    <<"You are an experienced interview coach conducting a", interview_type,
      "interview.", "**Candidate Context:**",
      IF context_docs = {} THEN "No previous context available." ELSE "context_parts",
      "**Your Role:**", "**Interview Guidelines:**",
      "Begin the interview now with a warm, personalized introduction.">>

\* the prompt of its except branch
FallbackPrompt(interview_type) ==
    <<"You are an experienced interview coach conducting a", interview_type,
      "interview.",
      "Introduce yourself and begin asking relevant interview questions.">>

RetrieveKs == {1, 3, 5}
RagQueries == {"none", "", "system design"}

\* a call of retrieve_user_context
Retrieve ==
    \E user_id \in RagUsers, query \in RagQueries, k \in RetrieveKs,
       outcome \in StoreOutcomes :
       \E r \in RetrieveUserContext(vector_store, user_id, query, k, outcome) :
          rag_result' = [NoRag EXCEPT !.op = "retrieve", !.user_id = user_id,
                                      !.k = k, !.query = query, !.store = outcome,
                                      !.raised = r.raised, !.docs = r.docs]

\* a call of build_personalized_prompt
BuildPersonalizedPrompt ==
    \E user_id \in RagUsers, interview_type \in {"", "general"},
       outcome \in StoreOutcomes :
       \E r \in RetrieveUserContext(vector_store, user_id, "interview preparation",
                                    5, outcome) :
          rag_result' = [NoRag EXCEPT
              !.op = "prompt", !.user_id = user_id, !.k = 5,
              !.query = "interview preparation", !.store = outcome,
              !.docs = r.docs,
              !.prompt = IF r.raised THEN FallbackPrompt(interview_type)
                         ELSE PersonalizedPrompt(interview_type, r.docs)]

\* the string get_user_summary returns
UserSummary(r) ==
    IF r.raised THEN "Error retrieving candidate information."
    ELSE IF r.docs = {} THEN "New candidate with no previous interview history."
    ELSE IF \E d \in r.docs : d.type \in {"basic_info", "profile"}
         THEN "basic_info and profile"
         ELSE "Limited candidate information available."

\* a call of get_user_summary
GetUserSummary ==
    \E user_id \in RagUsers, outcome \in StoreOutcomes :
       \E r \in RetrieveUserContext(vector_store, user_id, "none", 3, outcome) :
          rag_result' = [NoRag EXCEPT !.op = "summary", !.user_id = user_id, !.k = 3,
                                      !.store = outcome, !.docs = r.docs,
                                      !.summary = UserSummary(r)]

RagRead ==
    /\ (Retrieve \/ BuildPersonalizedPrompt \/ GetUserSummary)
    /\ UNCHANGED <<vector_store, user_data, index_runs>>
    /\ UNCHANGED <<wfvars, asvars, apivars, parsevars, rlvars>>

RagNext == IndexUserContext \/ RagRead

\* ======================================================= the JSON extraction
\* _parse_json_response applied to a text, on its own
NoParse == [kind |-> "none", d |-> EmptyDict]

ParseIdle == parse_text = <<>> /\ parse_result = NoParse

\* replies of the four model calls, and replies with two
\* payloads or a stray brace around one payload
ParseTexts ==
    ResponseTexts(CommKeys, ScorePayloads(CommKeys))
    \cup ResponseTexts(ContentKeys, ScorePayloads(ContentKeys))
    \cup ResponseTexts(BehavioralKeys, ScorePayloads(BehavioralKeys))
    \cup ResponseTexts(FeedbackKeys, FeedbackPayloads)
    \cup {Dumps(CommKeys, p) \o <<Prose>> \o Dumps(CommKeys, q) :
             p \in {Uniform(CommKeys, v) : v \in ScoreVals},
             q \in {Uniform(CommKeys, v) : v \in ScoreVals}}
    \cup {Dumps(CommKeys, p) \o <<Prose, RBrace>> :
             p \in {Uniform(CommKeys, v) : v \in ScoreVals}}
    \cup {<<Prose, RBrace, Prose>> \o Dumps(CommKeys, p) :
             p \in {Uniform(CommKeys, v) : v \in ScoreVals}}

ParseCall ==
    /\ \E response \in ParseTexts :
          /\ parse_text' = response
          /\ parse_result' = ParseJsonResponse(response)
    /\ UNCHANGED <<wfvars, asvars, apivars, ragvars, rlvars>>

\* ========================================================= the rate limiter
\* InMemoryRateLimiter and RateLimitMiddleware of app/middleware/rate_limiter.py.
\* A path is the sequence of its "/" and its segments; a time is a number of
\* seconds.
MaxClock == 330         \* seconds the clock runs
MaxDispatch == 4        \* requests the middleware sees in one behaviour

CleanupInterval == 60
CleanupCutoff == 300
RequestsPerMinute == 60

SessionsPath == <<"/", "ai-interview", "/", "sessions">>
MessagePath == <<"/", "ai-interview", "/", "sessions", "/", "1", "/", "message">>
ChatPath == <<"/", "ai", "/", "chat">>
LoginPath == <<"/", "auth", "/", "login">>
RegisterPath == <<"/", "auth", "/", "register">>
ProfilePath == <<"/", "ai-interview", "/", "profile">>
HealthPath == <<"/", "health">>

\* self.endpoint_limits, in insertion order
EndpointLimits ==
    <<[endpoint |-> SessionsPath, limit |-> <<10, 60>>],
      [endpoint |-> <<"/", "ai-interview", "/", "sessions", "/", "{id}", "/", "message">>,
       limit |-> <<30, 60>>],
      [endpoint |-> ChatPath, limit |-> <<20, 60>>],
      [endpoint |-> LoginPath, limit |-> <<5, 60>>],
      [endpoint |-> RegisterPath, limit |-> <<3, 60>>]>>

\* endpoint.split("{")[0]
SplitBrace(endpoint) ==
    LET hits == {i \in 1..Len(endpoint) : endpoint[i] = "{id}"}
    IN  IF hits = {} THEN endpoint
        ELSE SubSeq(endpoint, 1, (CHOOSE i \in hits : \A j \in hits : i <= j) - 1)

\* _get_rate_limit_for_path: the limit of the first endpoint, in the order of
\* the dict, whose text up to "{" the path starts with; else the default
GetRateLimitForPath(path) ==
    LET hits == {i \in 1..Len(EndpointLimits) :
                    IsPrefix(SplitBrace(EndpointLimits[i].endpoint), path)}
    IN  IF hits = {} THEN <<RequestsPerMinute, 60>>
        ELSE EndpointLimits[CHOOSE i \in hits : \A j \in hits : i <= j].limit

\* [ts for ts in timestamps if ts > bound]
After(timestamps, bound) == SelectSeq(timestamps, LAMBDA ts : ts > bound)

\* _cleanup_old_requests at time now: the requests and last_cleanup after it
CleanupOldRequests(reqs, cleaned, now) ==
    IF now - cleaned < CleanupInterval
    THEN [requests |-> reqs, last_cleanup |-> cleaned]
    ELSE LET kept == {key \in DOMAIN reqs : After(reqs[key], now - CleanupCutoff) # <<>>}
         IN  [requests |-> [key \in kept |-> After(reqs[key], now - CleanupCutoff)],
              last_cleanup |-> now]

\* variant: the limit is compared with > instead of >=
IsRateLimited_OffByOne(reqs, cleaned, now, key, max_requests, window_seconds) ==
    LET c == CleanupOldRequests(reqs, cleaned, now)
        mine == IF key \in DOMAIN c.requests
                THEN After(c.requests[key], now - window_seconds) ELSE <<>>
        limited == Len(mine) > max_requests
    IN  [limited |-> limited,
         last_cleanup |-> c.last_cleanup,
         requests |-> [k \in (DOMAIN c.requests) \cup {key} |->
                          IF k # key THEN c.requests[k]
                          ELSE IF limited THEN mine ELSE Append(mine, now)]]

\* is_rate_limited at time now: its result, and the limiter after it
IsRateLimited(reqs, cleaned, now, key, max_requests, window_seconds) ==
    LET c == CleanupOldRequests(reqs, cleaned, now)
        mine == IF key \in DOMAIN c.requests
                THEN After(c.requests[key], now - window_seconds) ELSE <<>>
        limited == Len(mine) >= max_requests
    IN  [limited |-> limited,
         last_cleanup |-> c.last_cleanup,
         requests |-> [k \in (DOMAIN c.requests) \cup {key} |->
                          IF k # key THEN c.requests[k]
                          ELSE IF limited THEN mine ELSE Append(mine, now)]]

\* _get_client_identifier: a bearer token, or the address of the client
RateClients == {"user:token", "ip:10.0.0.1"}

NoDispatch == [path |-> <<>>, client |-> "none", limit |-> <<0, 0>>,
               outcome |-> "none", at |-> 0]

RlIdle ==
    /\ clock = 0
    /\ limiter_requests = <<>>
    /\ last_cleanup = 0
    /\ admitted = <<>>
    /\ n_dispatch = 0
    /\ rate_result = NoDispatch

\* time passes
Tick ==
    /\ clock < MaxClock
    /\ clock' = clock + 30
    /\ UNCHANGED <<limiter_requests, last_cleanup, admitted, n_dispatch, rate_result>>
    /\ UNCHANGED <<wfvars, asvars, apivars, ragvars, parsevars>>

\* dispatch for a request of one of these clients to one of these paths: skipped for the health
\* paths, else answered 429 or passed on
Dispatch(clients, paths) ==
    /\ n_dispatch < MaxDispatch
    /\ n_dispatch' = n_dispatch + 1
    /\ \E client_id \in clients, path \in paths :
          LET limit == GetRateLimitForPath(path)
              key == <<client_id, path>>
              r == IsRateLimited(limiter_requests, last_cleanup, clock, key,
                                 limit[1], limit[2])
              res == [path |-> path, client |-> client_id, limit |-> limit,
                      outcome |-> "skipped", at |-> clock]
          IN  IF path = HealthPath
              THEN /\ rate_result' = res
                   /\ UNCHANGED <<limiter_requests, last_cleanup, admitted>>
              ELSE /\ limiter_requests' = r.requests
                   /\ last_cleanup' = r.last_cleanup
                   /\ rate_result' = [res EXCEPT !.outcome =
                                         IF r.limited THEN "429" ELSE "passed"]
                   /\ admitted' = IF r.limited THEN admitted
                                  ELSE Append(admitted, [key |-> key, ts |-> clock])
    /\ UNCHANGED clock
    /\ UNCHANGED <<wfvars, asvars, apivars, ragvars, parsevars>>

\* requests of one client to every kind of path, at one moment
LimitNext ==
    Dispatch({"user:token"},
             {SessionsPath, MessagePath, ChatPath, LoginPath, RegisterPath,
              ProfilePath, HealthPath})

\* requests of two clients to the registration endpoint, over time
RateNext == Tick \/ Dispatch(RateClients, {RegisterPath})

\* the assessment engine on its own; the workflow stays idle
AssessInit == AsInit /\ WfInit /\ ApiIdle /\ RagIdle /\ ParseIdle /\ RlIdle

AssessSpec == AssessInit /\ [][AsNext]_vars

\* the assessment engine called for a session that an earlier call has
\* assessed: the row holds what that call wrote, assessment is the bundle it
\* returned
ReassessInit ==
    /\ \E t \in {"behavioral", "general"}, tr \in Transcripts, llms \in AssessLlms :
          \E a \in AssessBundles(NewSession(t), tr, llms) :
             /\ apc = "idle"
             /\ session = UpdateSessionScores(NewSession(t), a)
             /\ interactions = tr
             /\ assessment = a
    /\ communication_scores = Unset
    /\ content_scores = Unset
    /\ behavioral_scores = Unset
    /\ overall_feedback = Unset
    /\ calls = NoCalls
    /\ WfInit /\ ApiIdle /\ RagIdle /\ ParseIdle /\ RlIdle

ReassessSpec == ReassessInit /\ [][AsNext]_vars

\* the workflow on its own; no assessment is under way
Init == WfInit /\ AsIdle("general", <<>>) /\ ApiIdle /\ RagIdle /\ ParseIdle /\ RlIdle

\* the HTTP layer on its own: the tables start empty
ApiInit == ApiIdle /\ WfInit /\ AsIdle("general", <<>>) /\ RagIdle /\ ParseIdle /\ RlIdle

ApiSpec == ApiInit /\ [][ApiNext]_vars

ConcurrentApiSpec == ApiInit /\ [][ConcurrentApiNext]_vars

\* the context provider on its own, over any rows of the two users
RagInit ==
    /\ vector_store = {}
    /\ user_data \in [RagUsers -> UserRows]
    /\ index_runs = 0
    /\ rag_result = NoRag
    /\ WfInit /\ AsIdle("general", <<>>) /\ ApiIdle /\ ParseIdle /\ RlIdle

RagSpec == RagInit /\ [][RagNext]_vars

\* the transcripts the speech metrics are computed for: none, one or two
\* candidate turns after the interviewer's question, each with or without
\* words and with no, a zero or a positive audio duration; and no turn at all
MetricTurns ==
    {Interaction("user", w, a) :
        w \in {<<>>, <<"um", "answer", "answer">>},
        a \in {NullV, Num(0), Num(7), Num(30)}}

MetricTranscripts ==
    {<<>>, <<Interaction("assistant", <<"question">>, NullV)>>}
    \cup {<<Interaction("assistant", <<"question">>, NullV), t>> : t \in MetricTurns}
    \cup {<<Interaction("assistant", <<"question">>, NullV), t, u>> :
             t \in MetricTurns, u \in MetricTurns}

\* the communication pass on its own, over these transcripts
MetricsInit ==
    /\ \E tr \in MetricTranscripts : AsIdle("general", tr)
    /\ WfInit /\ ApiIdle /\ RagIdle /\ ParseIdle /\ RlIdle

MetricsNext == BeginAssess \/ CommunicationPass

MetricsSpec == MetricsInit /\ [][MetricsNext]_vars

\* the JSON extraction and the rate limiter before their first call, the
\* rest of the system idle
HelpersInit ==
    /\ ParseIdle /\ RlIdle
    /\ WfInit /\ AsIdle("general", <<>>) /\ ApiIdle /\ RagIdle

ParseNext == ParseCall

\* the JSON extraction on its own
ParseSpec == HelpersInit /\ [][ParseNext]_vars

\* the middleware's choice of limit on its own
LimitSpec == HelpersInit /\ [][LimitNext]_vars

\* the rate limiter over time
RateSpec == HelpersInit /\ [][RateNext]_vars

Spec == Init /\ [][WfNext]_vars

\* the graph runner runs every node it has scheduled
FairSpec == Spec /\ WF_vars(RunStep)

\* =================================================================== claims
LoopNodes == {"conduct_interview", "analyze_response", "check_completion"}

Count == state.current_question_count

\* C1: in every run the question count grows by exactly 1 with each completed
\* conduct/analyze/check cycle and by nothing else inside the loop, and the
\* run enters generate_feedback exactly once, at the moment the count equals
\* max_questions, never while the count is below it.
C1_CountAndFeedback ==
    /\ [](/\ n_feedback <= 1
          /\ (pc \in LoopNodes => Count = cycles /\ n_feedback = 0)
          /\ (pc = "conduct_interview" => Count < state.max_questions)
          /\ (pc \in {"generate_feedback", "end"} =>
                 n_feedback = 1 /\ Count = state.max_questions))
    /\ [][/\ (cycles' = cycles + 1 => state'.current_question_count = Count + 1)
          /\ (pc \in {"conduct_interview", "analyze_response"} =>
                 state'.current_question_count = Count)
          /\ (n_feedback' = n_feedback + 1 =>
                 state'.current_question_count = state'.max_questions)]_wfvars

C1_Witness == pc = "generate_feedback" /\ cycles = DefaultMaxQuestions /\ n_feedback = 1

\* C2: every run terminates, whatever the model calls do: a run that has
\* begun reaches the end state, after at most max_questions cycles, one
\* prepare_context step and one generate_feedback step.
C2_Terminates ==
    /\ [](pc # "idle" => /\ cycles <= state.max_questions
                         /\ n_conduct <= state.max_questions
                         /\ n_prepare <= 1
                         /\ n_feedback <= 1)
    /\ ((pc \in Nodes) ~> (pc = "end"))

C2_Witness ==
    /\ pc = "end" /\ entry = "continue" /\ llm_last = "error"
    /\ cycles = DefaultMaxQuestions /\ n_prepare = 1 /\ n_feedback = 1

Returned(e) == pc = "returned" /\ entry = e

\* C4: the response to starting a session reports status 'active' or
\* 'initializing' and a non-empty response (the interview is not reported as
\* completed right after it is started).
C4_StartReportsActive ==
    Returned("start") =>
        /\ http_response.status \in {"active", "initializing"}
        /\ http_response.response # ""

\* C5: a run continued from a reloaded state with question count n < max
\* continues the numbering from n (the first conduct step sees n) and performs
\* max_questions - n further cycles before generating feedback.
C5_ResumeKeepsCounters ==
    (entry = "continue" /\ loaded.current_question_count < loaded.max_questions) =>
        /\ (seen_count # -1 => seen_count = loaded.current_question_count)
        /\ (pc \in {"generate_feedback", "end"} =>
               cycles = loaded.max_questions - loaded.current_question_count)

AppendedSince(msgs) == SubSeq(state.messages, Len(msgs) + 1, Len(state.messages))

\* C6: a conduct step whose model call fails completes normally, appends
\* exactly the fixed apologetic assistant message and leaves question count,
\* max_questions and session status alone; in every state the assistant
\* messages the conduct steps appended are as many as the conduct steps run.
C6_ConductFailure ==
    /\ [](/\ IsPrefix(loaded.messages, state.messages)
          /\ Len(SelectType(AppendedSince(loaded.messages), "ai")) = n_conduct + fb_appended
          /\ Len(AppendedSince(loaded.messages)) = n_conduct + fb_appended)
    /\ [][(pc = "conduct_interview" /\ n_conduct' = n_conduct + 1 /\ llm_last' = "error") =>
             /\ pc' = "analyze_response"
             /\ state'.messages = Append(state.messages, ApologyMessage)
             /\ state'.current_question_count = state.current_question_count
             /\ state'.max_questions = state.max_questions
             /\ state'.session_status = state.session_status]_wfvars

C6_Witness ==
    /\ pc = "analyze_response" /\ llm_last = "error" /\ n_conduct = 3
    /\ state.messages[Len(state.messages)] = ApologyMessage

Comm == assessment.communication_scores
Cont == assessment.content_scores
Beh == assessment.behavioral_scores

BehavioralPresent ==
    /\ Beh.star_method_score # NullV
    /\ Beh.leadership_score # NullV
    /\ Beh.teamwork_score # NullV

\* 600 times 0.30 * mean(communication) + 0.50 * mean(content), plus
\* 0.20 * mean(behavioral) when with_behavioral
WeightedSum600(with_behavioral) ==
    (600 * 30 * (Comm.clarity_score.v + Comm.confidence_score.v + Comm.pace_score.v))
        \div (100 * 3)
    + (600 * 50 * (Cont.technical_accuracy_score.v + Cont.problem_solving_score.v
                   + Cont.structure_score.v + Cont.relevance_score.v)) \div (100 * 4)
    + (IF with_behavioral
       THEN (600 * 20 * (Beh.star_method_score.v + Beh.leadership_score.v
                         + Beh.teamwork_score.v)) \div (100 * 3)
       ELSE 0)

\* x (in hundredths) is y / 600 rounded to two decimals
IsRounded2(x, y) == -3 <= 6 * x - y /\ 6 * x - y <= 3

\* C7: the overall score of a returned assessment is 0.30 * mean(clarity,
\* confidence, pace) + 0.50 * mean(the four content scores), plus 0.20 *
\* mean(star_method, leadership, teamwork) exactly when the three behavioral
\* scores are present (non-null), rounded to two decimals; the weights are not
\* renormalised when the behavioral group is absent.
C7_OverallIsWeightedSum ==
    apc = "done" =>
        /\ assessment.overall_score.t = "num"
        /\ assessment.overall_score.d = 100
        /\ IsRounded2(assessment.overall_score.v, WeightedSum600(BehavioralPresent))

C7_Witness ==
    /\ apc = "done"
    /\ BehavioralPresent
    /\ Comm.clarity_score # Comm.pace_score
    /\ Cont.relevance_score # Beh.teamwork_score
    /\ WeightedSum600(TRUE) % 6 \in {1, 2, 4, 5}

\* C8: the overall score of every returned assessment lies between 0 and 100
\* inclusive, whatever scores the model calls returned.
C8_OverallInRange ==
    apc = "done" =>
        /\ 0 <= assessment.overall_score.v
        /\ assessment.overall_score.v <= 100 * assessment.overall_score.d

\* C9: after an assessment the star_method, leadership and teamwork scores
\* are all non-null if the session's type is behavioral, and all null
\* otherwise, in which case they take no part in the overall score.
C9_BehavioralPopulated ==
    apc = "done" =>
        IF IsBehavioral(session.interview_type)
        THEN /\ Beh.star_method_score # NullV
             /\ Beh.leadership_score # NullV
             /\ Beh.teamwork_score # NullV
        ELSE /\ Beh.star_method_score = NullV
             /\ Beh.leadership_score = NullV
             /\ Beh.teamwork_score = NullV
             /\ IsRounded2(assessment.overall_score.v, WeightedSum600(FALSE))

ScorePasses ==
    IF IsBehavioral(session.interview_type)
    THEN {"communication", "content", "behavioral"}
    ELSE {"communication", "content"}

PassKeys(p) ==
    CASE p = "communication" -> CommKeys
      [] p = "content" -> ContentKeys
      [] p = "behavioral" -> BehavioralKeys

\* the score the bundle holds for key k of pass p
BundleScore(p, k) ==
    CASE p = "communication" ->
           (CASE k = "clarity" -> Comm.clarity_score
              [] k = "confidence" -> Comm.confidence_score
              [] k = "pace" -> Comm.pace_score)
      [] p = "content" ->
           (CASE k = "technical_accuracy" -> Cont.technical_accuracy_score
              [] k = "problem_solving" -> Cont.problem_solving_score
              [] k = "structure" -> Cont.structure_score
              [] k = "relevance" -> Cont.relevance_score)
      [] p = "behavioral" ->
           (CASE k = "star_method" -> Beh.star_method_score
              [] k = "leadership" -> Beh.leadership_score
              [] k = "teamwork" -> Beh.teamwork_score)

PassFailed(p) == calls[p].kind \in {"error", "unparseable"}

PassProduced(p) ==
    /\ calls[p].kind = "payload"
    /\ DOMAIN calls[p].payload = Range(PassKeys(p))
    /\ \A k \in Range(PassKeys(p)) : IsNum(calls[p].payload[k])

OnlyFailed(p) ==
    /\ p \in ScorePasses
    /\ PassFailed(p)
    /\ \A q \in ScorePasses \ {p} : PassProduced(q)

\* C10: when exactly one of the scoring passes fails (its model call raises
\* or its text holds no parseable payload) and the other passes return their
\* scores, the assessment is returned complete, every score of the failed pass
\* is 70 and the scores of the other passes are the ones their calls returned.
C10_OnePassFails ==
    \A p \in {"communication", "content", "behavioral"} :
        (apc \in {"calculate", "done", "raised"} /\ OnlyFailed(p)) =>
            /\ apc # "raised"
            /\ apc = "done" =>
                  /\ \A k \in Range(PassKeys(p)) : BundleScore(p, k) = Num(70)
                  /\ (p = "communication" => Comm.verbal_communication_score = Num(70))
                  /\ \A q \in ScorePasses \ {p} : \A k \in Range(PassKeys(q)) :
                         BundleScore(q, k) = calls[q].payload[k]
                  /\ assessment.feedback = overall_feedback
                  /\ assessment.overall_score.t = "num"

C10_Witness ==
    /\ apc = "done"
    /\ IsBehavioral(session.interview_type)
    /\ OnlyFailed("content")
    /\ calls["content"].kind = "unparseable"
    /\ Comm.clarity_score = Num(55)
    /\ Beh.teamwork_score = Num(110)

\* a feedback value that holds something: a list with an element, a text with
\* a character
NonEmpty(x) == x.t \in {"list", "text"} /\ x.v > 0

FeedbackFields ==
    {"strengths", "weaknesses", "detailed_feedback", "next_steps", "recommended_topics"}

\* C11: when the feedback model call fails or its output cannot be parsed as
\* the expected structure, the returned feedback is the fixed generic bundle:
\* strengths, weaknesses, detailed_feedback, next_steps and recommended_topics
\* are all non-empty in the returned assessment and on the persisted session.
C11_GenericFeedbackOnFailure ==
    (apc = "done" /\ calls["feedback"].kind \in {"error", "unparseable"}) =>
        /\ assessment.feedback = GenericFeedback
        /\ \A f \in FeedbackFields : NonEmpty(assessment.feedback[f])
        /\ NonEmpty(session.strengths.value)
        /\ NonEmpty(session.weaknesses.value)
        /\ NonEmpty(session.detailed_feedback)
        /\ NonEmpty(session.next_steps.value)
        /\ NonEmpty(session.recommended_topics.value)

BundleParts ==
    {"overall_score", "communication_scores", "content_scores", "behavioral_scores",
     "feedback"}

\* C12: for an existing session, assess never raises because a model call
\* failed or returned malformed output (the only raise is the one for a
\* session that is not there, before any pass ran): it returns a complete
\* bundle with overall_score, communication_scores, content_scores,
\* behavioral_scores and feedback, and persists it.
C12_AssessNeverRaises ==
    /\ (apc = "raised" => communication_scores = Unset)
    /\ (apc = "done" =>
           /\ DOMAIN assessment = BundleParts
           /\ IsNum(assessment.overall_score)
           /\ session.overall_score = assessment.overall_score)

\* C20: the message history of a run is append-only: every step of a run
\* (prepare, conduct, analyze, check, feedback, with or without a failing
\* model call) leaves the history it found as a prefix of the history it
\* leaves, so the history of any earlier state of the run, the invoked one
\* included, is a prefix of that of any later state.
C20_HistoryAppendOnly ==
    /\ [](pc \in Nodes \cup {"end", "returned"} =>
             IsPrefix(loaded.messages, state.messages))
    /\ [][(pc \in Nodes) => IsPrefix(state.messages, state'.messages)]_wfvars

C20_Witness ==
    /\ pc = "end" /\ entry = "continue" /\ llm_last = "ok"
    /\ Len(loaded.messages) = 7
    /\ Len(state.messages) = 13
    /\ \E i \in 8..12 : state.messages[i] = ApologyMessage

\* ---- the HTTP layer
SessionOps == {"get", "send", "complete", "assess"}

\* the sessions table holds a session with this id that this user owns
IsSessionOf(sessions, user, session_id) ==
    /\ session_id \in DOMAIN sessions
    /\ sessions[session_id].user_id = user

TablesUnchanged == db_sessions' = db_sessions /\ db_interactions' = db_interactions

\* the body of a request satisfies its schema
WellFormed(r) ==
    /\ (r.op = "send" => (r.body.message.present /\ r.body.message.chars >= 1))
    /\ (r.op = "start" =>
           (r.body.title.present /\ r.body.title.chars >= 1 /\ r.body.title.chars <= 255))

\* C13: a well-formed get, send-message, complete or assess request for a
\* session that is not there or belongs to another user is answered 404 by
\* the step that looks the session up: the request has made no call of the
\* workflow or of the assessment engine, and the step leaves both tables (the
\* status, the scores and the interactions of every session) as they were.
C13_OtherUsersSessionIs404 ==
    [][(/\ api_response'.op \in SessionOps
        /\ WellFormed(api_response')
        /\ ~IsSessionOf(db_sessions, api_response'.user, api_response'.session_id))
       => (/\ api_response'.code = 404
           /\ api_response'.calls = 0
           /\ TablesUnchanged)]_vars

C13_Witness ==
    /\ api_response.op = "assess"
    /\ api_response.code = 404
    /\ api_response.session_id \in DOMAIN db_sessions
    /\ db_sessions[api_response.session_id].user_id # api_response.user
    /\ db_sessions[api_response.session_id].overall_score # NullV

\* C14: a send-message request with an empty message and a start request
\* without a title are answered 422 before the handler runs: the answering
\* step changes neither table (no session created, no interaction appended),
\* the request has made no call of the workflow or the assessment engine, and
\* no request with such a body is ever being handled.
C14_InvalidBodyIs422 ==
    /\ [](\A c \in Clients :
            /\ (requests[c].op = "send" => requests[c].body.message.chars >= 1)
            /\ (requests[c].op = "start" => requests[c].body.title.present))
    /\ [][(\/ (api_response'.op = "send" /\ api_response'.body.message.chars = 0)
           \/ (api_response'.op = "start" /\ ~api_response'.body.title.present))
          => (/\ api_response'.code = 422
              /\ api_response'.calls = 0
              /\ TablesUnchanged)]_vars

C14_Witness ==
    /\ api_response.op = "send"
    /\ api_response.code = 422
    /\ api_response.body.message = Text(0, <<>>)
    /\ IsSessionOf(db_sessions, api_response.user, api_response.session_id)
    /\ db_sessions[api_response.session_id].status = "active"

\* C15: a session row is created with status active; the status of a row
\* changes only in the commit step of a complete request for it, and then to
\* completed; a start request, whose workflow run ends in the run state
\* completed, leaves the persisted status alone; and when a complete
\* request is answered 200 the row is completed with completed_at set.
C15_CompletedOnlyByComplete ==
    /\ [](\A id \in DOMAIN db_sessions :
            /\ db_sessions[id].status \in {"active", "completed"}
            /\ (db_sessions[id].status = "completed" =>
                   db_sessions[id].completed_at # NullV))
    /\ [][/\ \A id \in (DOMAIN db_sessions') \ (DOMAIN db_sessions) :
                db_sessions'[id].status = "active"
          /\ \A id \in DOMAIN db_sessions :
                (db_sessions'[id].status # db_sessions[id].status) =>
                    /\ db_sessions'[id].status = "completed"
                    /\ \E c \in Clients :
                          /\ requests[c].step = "idle"
                          /\ requests'[c].op = "complete"
                          /\ requests'[c].session_id = id
          /\ (api_response'.op = "complete" /\ api_response'.code = 200) =>
                /\ db_sessions'[api_response'.session_id].status = "completed"
                /\ db_sessions'[api_response'.session_id].completed_at # NullV
                /\ api_response'.out.status = "completed"]_vars

C15_Witness ==
    /\ api_response.op = "start"
    /\ api_response.code = 201
    /\ api_response.out.status = "completed"
    /\ api_response.out.question_count = DefaultMaxQuestions
    /\ db_sessions[api_response.session_id].status = "active"
    /\ db_sessions[api_response.session_id].completed_at = NullV

\* ---- the context provider
DocsOf(user_id) == {d \in vector_store : d.metadata.user_id = user_id}

\* C16: a call of retrieve_user_context(user_id, query, k) does not raise and
\* returns at most k snippets; each is a document of the store that carries
\* this user_id and was built from this user's rows; and no document of the
\* store carries a user_id other than that of the user whose rows it was
\* built from. This holds after any index and retrieve calls, with or
\* without a query.
C16_RetrievalIsPerUser ==
    /\ \A d \in vector_store : d.metadata.user_id = d.page_content.of
    /\ rag_result.op = "retrieve" =>
          /\ ~rag_result.raised
          /\ Cardinality(rag_result.docs) <= rag_result.k
          /\ \A c \in rag_result.docs :
                /\ c.metadata.user_id = rag_result.user_id
                /\ c.content.of = rag_result.user_id
                /\ \E d \in vector_store :
                      d.page_content = c.content /\ d.metadata = c.metadata

C16_Witness ==
    /\ rag_result.op = "retrieve"
    /\ rag_result.query = "none"
    /\ rag_result.k = 1
    /\ Cardinality(rag_result.docs) = 1
    /\ Cardinality(DocsOf(rag_result.user_id)) > 1
    /\ \E u \in RagUsers : u # rag_result.user_id /\ DocsOf(u) # {}

\* C17: a call of retrieve_user_context for a user that has no profile and
\* no past session returns no snippet, whatever was indexed before.
C17_NothingForNewUser ==
    (/\ rag_result.op = "retrieve"
     /\ user_data[rag_result.user_id].profile = "none"
     /\ user_data[rag_result.user_id].sessions = 0)
    => rag_result.docs = {}

\* C18: a failure of the vector store does not leave the context provider:
\* retrieve_user_context then returns no snippet and does not raise, and
\* build_personalized_prompt never raises and returns a prompt that is not
\* the empty string (it has a segment that is not empty), whether the
\* retrieval found snippets, found none or failed.
C18_StoreFailureAbsorbed ==
    /\ rag_result.op = "retrieve" =>
          /\ ~rag_result.raised
          /\ (rag_result.store = "error" => rag_result.docs = {})
    /\ rag_result.op = "prompt" =>
          /\ ~rag_result.raised
          /\ Len(rag_result.prompt) > 0
          /\ \E i \in 1..Len(rag_result.prompt) : rag_result.prompt[i] # ""

C18_Witness ==
    /\ rag_result.op = "prompt"
    /\ rag_result.store = "error"
    /\ DocsOf(rag_result.user_id) # {}
    /\ rag_result.prompt = PersonalizedPrompt("", {})

\* ---- repeated assessments
\* 600 times the weighted sum of the persisted dimension scores; the
\* behavioral group counts when its three scores are all there
PersistedSum600 ==
    (600 * 30 * (session.clarity_score.v + session.confidence_score.v
                 + session.pace_score.v)) \div (100 * 3)
    + (600 * 50 * (session.technical_accuracy_score.v + session.problem_solving_score.v
                   + session.structure_score.v + session.relevance_score.v))
          \div (100 * 4)
    + (IF /\ session.star_method_score # NullV
          /\ session.leadership_score # NullV
          /\ session.teamwork_score # NullV
       THEN (600 * 20 * (session.star_method_score.v + session.leadership_score.v
                         + session.teamwork_score.v)) \div (100 * 3)
       ELSE 0)

\* C19: at every moment after an assessment of a session returned, also while
\* and after later assessments of it run (and when one of them raises), the
\* persisted row agrees with the bundle returned last: every dimension score
\* and the overall score are the bundle's, the feedback columns hold the
\* bundle's lists and text (improvements the bundle's weaknesses), and the
\* overall score is the weighted sum of the persisted dimension scores
\* rounded to two decimals.
C19_RowAgreesWithLastBundle ==
    assessment # Unset =>
        /\ session.overall_score = assessment.overall_score
        /\ session.verbal_communication_score = Comm.verbal_communication_score
        /\ session.clarity_score = Comm.clarity_score
        /\ session.confidence_score = Comm.confidence_score
        /\ session.pace_score = Comm.pace_score
        /\ session.technical_accuracy_score = Cont.technical_accuracy_score
        /\ session.problem_solving_score = Cont.problem_solving_score
        /\ session.structure_score = Cont.structure_score
        /\ session.relevance_score = Cont.relevance_score
        /\ session.star_method_score = Beh.star_method_score
        /\ session.leadership_score = Beh.leadership_score
        /\ session.teamwork_score = Beh.teamwork_score
        /\ session.strengths.value = assessment.feedback.strengths
        /\ session.weaknesses.value = assessment.feedback.weaknesses
        /\ session.improvements.value = assessment.feedback.weaknesses
        /\ session.detailed_feedback = assessment.feedback.detailed_feedback
        /\ session.recommended_topics.value = assessment.feedback.recommended_topics
        /\ session.next_steps.value = assessment.feedback.next_steps
        /\ IsRounded2(session.overall_score.v, PersistedSum600)

\* a second assessment of a behavioral session returned null for star_method
\* and an empty strengths list, over the scores and lists of the first
C19_Witness ==
    /\ apc = "done"
    /\ IsBehavioral(session.interview_type)
    /\ session.star_method_score = NullV
    /\ session.leadership_score # NullV
    /\ session.strengths.value = ListV(0)
    /\ session.clarity_score.v # FallbackScore

\* ---- the JSON extraction
\* the first balanced brace-delimited span of a text: from its first "{" to
\* the first "}" after it (the payloads hold no nested object); <<>> without
FirstBalancedSpan(text) ==
    LET opens == {i \in 1..Len(text) : text[i] = LBrace}
        first == CHOOSE i \in opens : \A j \in opens : i <= j
        closes == {i \in 1..Len(text) : text[i] = RBrace /\ i > first}
    IN  IF opens = {} \/ closes = {} THEN <<>>
        ELSE SubSeq(text, first, CHOOSE i \in closes : \A j \in closes : i <= j)

\* C21: _parse_json_response returns the content of the first balanced
\* brace-delimited span of the text, whatever stands before or after it
\* (prose, or further spans), and the empty mapping when that span is missing
\* or does not parse; it never raises and returns nothing but a mapping.
C21_FirstBalancedSpanParsed ==
    parse_result # NoParse =>
        /\ parse_result.kind = "dict"
        /\ parse_result.d = (IF JsonLoads(FirstBalancedSpan(parse_text)).kind = "dict"
                             THEN JsonLoads(FirstBalancedSpan(parse_text)).d
                             ELSE EmptyDict)

\* ---- the speech metrics
\* C22: the words_per_minute of the communication scores is the candidate's
\* total words divided by the total recorded minutes when the audio durations
\* of the candidate turns sum to more than zero, and exactly 150 when they sum
\* to zero or no turn has a duration, a transcript without candidate turns
\* included.
C22_WordsPerMinute ==
    communication_scores # Unset =>
        LET cands == CandidateInteractions(interactions)
            wpm == communication_scores.words_per_minute
        IN  IF TotalDuration(cands) > 0
            THEN wpm.v * TotalDuration(cands) = TotalWords(cands) * 60 * wpm.d
            ELSE wpm = Num(150)

\* two candidate turns with words, one with a duration of 0 and one without
\* duration
C22_Witness ==
    /\ communication_scores # Unset
    /\ communication_scores.words_per_minute = Num(150)
    /\ Len(interactions) = 3
    /\ interactions[2].audio_duration_seconds = Num(0)
    /\ interactions[3].audio_duration_seconds = NullV
    /\ TotalWords(CandidateInteractions(interactions)) = 6

\* ---- the index and the analyze step
\* C23: when index_user_context(user) returns True the store holds for that
\* user exactly the documents this call built, none of an earlier call, also
\* when the delete failed; and the documents of the other users are as before.
C23_IndexReplaces ==
    [][(rag_result'.op = "index" /\ rag_result'.success) =>
         /\ {d \in vector_store' : d.metadata.user_id = rag_result'.user_id}
               = BuildDocuments(index_runs', rag_result'.user_id,
                                user_data[rag_result'.user_id])
         /\ {d \in vector_store' : d.metadata.user_id # rag_result'.user_id}
               = {d \in vector_store : d.metadata.user_id # rag_result'.user_id}]_vars

HumanIndexes(msgs) == {i \in 1..Len(msgs) : msgs[i].type = "human"}

LastHuman(msgs) ==
    msgs[CHOOSE i \in HumanIndexes(msgs) : \A j \in HumanIndexes(msgs) : j <= i]

\* C24: the analyze step stores the length and the word count of the last
\* user message of the history under the question count it finds (the check
\* step increments the count only afterwards), touches no other key of
\* analysis_results and no other field of the run state, and with no user
\* message in the history leaves the whole run state as it is; in both cases
\* the run goes on to the check step.
C24_AnalyzeRecordsLastAnswer ==
    [][pc = "analyze_response" =>
         /\ pc' = "check_completion"
         /\ IF HumanIndexes(state.messages) = {}
            THEN state' = state
            ELSE /\ state' = [state EXCEPT !.analysis_results = state'.analysis_results]
                 /\ DOMAIN state'.analysis_results
                       = (DOMAIN state.analysis_results) \cup {state.current_question_count}
                 /\ \A k \in (DOMAIN state.analysis_results) \ {state.current_question_count} :
                       state'.analysis_results[k] = state.analysis_results[k]
                 /\ state'.analysis_results[state.current_question_count]
                       = [response_length |-> StrLen(LastHuman(state.messages).words),
                          word_count |-> Len(LastHuman(state.messages).words)]]_wfvars

\* the third round of a continued run: the counts 0 and 1 hold the analysis
\* already, the answer analysed is not the first user message of the history
C24_Witness ==
    /\ pc = "check_completion"
    /\ state.current_question_count = 2
    /\ DOMAIN state.analysis_results = {0, 1, 2}
    /\ Cardinality(HumanIndexes(state.messages)) >= 2
    /\ LastHuman(state.messages).words # state.messages[1].words
    /\ state.analysis_results[2].word_count = Len(LastHuman(state.messages).words)

\* ---- the rate limits
\* C25: a request to the send-message endpoint is judged by the pair
\* configured for that endpoint, 30 requests in 60 seconds, and a request to
\* any configured endpoint by that endpoint's own pair.
C25_OwnLimitPerEndpoint ==
    /\ rate_result.path = MessagePath => rate_result.limit = <<30, 60>>
    /\ \A i \in 1..Len(EndpointLimits) :
          (rate_result.path # HealthPath
              /\ LET e == EndpointLimits[i].endpoint
                 IN  Len(e) = Len(rate_result.path)
                        /\ \A j \in 1..Len(e) :
                              e[j] = "{id}" \/ e[j] = rate_result.path[j])
             => rate_result.limit = EndpointLimits[i].limit

\* the requests of the key that the log of admitted requests holds for the
\* window_seconds that end at the time now
AdmittedWithin(log, key, now, window_seconds) ==
    {i \in 1..Len(log) :
        log[i].key = key /\ log[i].ts > now - window_seconds /\ log[i].ts <= now}

\* C26: of the requests of one key that fall within any span of window_seconds
\* at most max_requests were admitted; a request is admitted exactly when
\* fewer than max_requests admitted requests of its own key lie in the window
\* that ends with it, so that rejected requests and the requests of other
\* keys, and the cleanups between them, have no part in the decision; and a
\* rejected request is recorded nowhere.
C26_SlidingWindowQuota ==
    /\ [](\A i \in 1..Len(admitted) :
             LET limit == GetRateLimitForPath(admitted[i].key[2])
             IN  Cardinality(AdmittedWithin(admitted, admitted[i].key,
                                            admitted[i].ts, limit[2])) <= limit[1])
    /\ [][n_dispatch' # n_dispatch =>
            LET key == <<rate_result'.client, rate_result'.path>>
                limit == rate_result'.limit
                before == IF key \in DOMAIN limiter_requests
                          THEN limiter_requests[key] ELSE <<>>
            IN  /\ (rate_result'.outcome = "passed")
                      <=> (Cardinality(AdmittedWithin(admitted, key, clock, limit[2]))
                              < limit[1])
                /\ rate_result'.outcome = "429" =>
                      /\ admitted' = admitted
                      /\ \A j \in 1..Len(limiter_requests'[key]) :
                            \E h \in 1..Len(before) : before[h] = limiter_requests'[key][j]
                /\ rate_result'.outcome = "passed" =>
                      admitted' = Append(admitted, [key |-> key, ts |-> clock])]_rlvars

\* a request is rejected when as many of its key as the limit allows lie in
\* its window, the first admission is older than it, and a cleanup has run
C26_Witness ==
    /\ rate_result.outcome = "429"
    /\ last_cleanup > 0
    /\ Cardinality(AdmittedWithin(admitted, <<rate_result.client, rate_result.path>>,
                                  clock, rate_result.limit[2])) = rate_result.limit[1]
    /\ rate_result.at > admitted[1].ts

\* ---- the score of the session row
\* a family of AIInterviewSession.calculate_overall_score: the columns that
\* are not None, and the weight of the family in hundredths
Family(columns, weight) ==
    [present |-> SelectSeq(columns, LAMBDA c : c # NullV), weight |-> weight]

FamilySum(f) == SumSeq([i \in 1..Len(f.present) |-> f.present[i].v])

\* AIInterviewSession.calculate_overall_score: the average of each family
\* over its columns that are not None; the families with a positive average
\* enter with the weights 0.30, 0.40, 0.20 and 0.10, and the weighted sum is
\* divided by the weight that entered; 0.0 when none entered. The non-verbal
\* columns are written nowhere and are None. The result is the set of values
\* round(.., 2) can take, both neighbours for a quotient half-way between
\* two hundredths.
SessionCalculateOverallScore(sess) ==
    LET families ==
            <<Family(<<sess.verbal_communication_score, sess.clarity_score,
                       sess.confidence_score, sess.pace_score>>, 30),
              Family(<<sess.technical_accuracy_score, sess.problem_solving_score,
                       sess.structure_score, sess.relevance_score>>, 40),
              Family(<<sess.star_method_score, sess.leadership_score,
                       sess.teamwork_score>>, 20),
              Family(<<NullV, NullV, NullV>>, 10)>>
        scores == SelectSeq(families, LAMBDA f : f.present # <<>> /\ FamilySum(f) > 0)
        \* 12 is a multiple of every number of columns a family can hold
        total_weight == 12 * SumSeq([i \in 1..Len(scores) |-> scores[i].weight])
        weighted_sum ==
            SumSeq([i \in 1..Len(scores) |->
                       FamilySum(scores[i]) * scores[i].weight
                          * (12 \div Len(scores[i].present))])
        q == (100 * weighted_sum) \div total_weight
        r == (100 * weighted_sum) % total_weight
    IN  IF scores = <<>> THEN {Frac(0, 100)}
        ELSE IF 2 * r < total_weight THEN {Frac(q, 100)}
        ELSE IF 2 * r > total_weight THEN {Frac(q + 1, 100)}
        ELSE {Frac(q, 100), Frac(q + 1, 100)}

DimensionColumns ==
    {"verbal_communication_score", "clarity_score", "confidence_score", "pace_score",
     "technical_accuracy_score", "problem_solving_score", "structure_score",
     "relevance_score", "star_method_score", "leadership_score", "teamwork_score"}

\* C27: once a session is assessed and its row written, the score the row's
\* calculate_overall_score() derives from the persisted dimension scores is
\* the overall_score the assessment persisted with them.
C27_TwoOverallScoresAgree ==
    (/\ apc = "done"
     /\ \A c \in DimensionColumns :
           session[c] = NullV \/ (IsNum(session[c]) /\ session[c].d = 1))
        => session.overall_score \in SessionCalculateOverallScore(session)

\* ---- completion
\* C28: every interaction a send request writes is committed while the row
\* of its session has the status active, whatever the order of the steps
\* of the send and complete requests; a send
\* is let past its checks only for an active session, and a send for the
\* caller's session that is not active is answered 400 and writes nothing.
C28_NoInteractionAfterCompletion ==
    [][/\ (/\ db_interactions' # db_interactions
           /\ \E c \in Clients : requests[c].op = "send" /\ requests'[c] # requests[c]) =>
            /\ Len(db_interactions') = Len(db_interactions) + 1
            /\ SubSeq(db_interactions', 1, Len(db_interactions)) = db_interactions
            /\ LET row == db_interactions'[Len(db_interactions')]
               IN  /\ row.session_id \in DOMAIN db_sessions
                   /\ db_sessions[row.session_id].status = "active"
       /\ \A c \in Clients :
             (requests[c].step = "idle" /\ requests'[c].op = "send")
                => db_sessions[requests'[c].session_id].status = "active"
       /\ (/\ requests' = requests
           /\ api_response'.op = "send"
           /\ WellFormed(api_response')
           /\ IsSessionOf(db_sessions, api_response'.user, api_response'.session_id)
           /\ db_sessions[api_response'.session_id].status # "active")
             => (api_response'.code = 400 /\ TablesUnchanged)]_vars

\* C29: a session whose row says completed, with no complete request for it
\* still being handled, has an overall score, whether the complete request
\* was answered with the row or with an error.
C29_CompletedHasScore ==
    \A sid \in DOMAIN db_sessions :
       (/\ db_sessions[sid].status = "completed"
        /\ \A c \in Clients :
              ~(requests[c].op = "complete" /\ requests[c].session_id = sid))
          => db_sessions[sid].overall_score # NullV

\* C30: a start request whose body is valid is answered 201 with the id of
\* the session it created and a response text that is not empty, also when
\* the workflow run inside start_interview failed.
C30_StartAlwaysAnswers ==
    (api_response.op = "start" /\ api_response.calls = 1) =>
        /\ api_response.code = 201
        /\ api_response.out.session_id = api_response.session_id
        /\ api_response.out.response # ""

====
